---- MODULE Spec2Model ----
(***************************************************************************)
(* Signal-to-execution engine of the TradingView -> Binance futures bot.   *)
(*                                                                         *)
(* Modelled parts:                                                         *)
(*   - the price stream and its watch primitive (src/binance/wss.py),      *)
(*   - the hedging strategy (src/strategies/hedging_strategy/strategy.py)  *)
(*     over the hedging venue client (src/binance/hedging_client.py),      *)
(*   - the stop strategy (src/strategies/stop_strategy/strategy.py) over   *)
(*     the stop venue client (src/binance/stop_client.py).                 *)
(*                                                                         *)
(* Concurrency model: one asyncio event loop.  Code between two awaits of  *)
(* a coroutine is one atomic action; a venue call takes effect when it is  *)
(* issued and its result is consumed by the next action of the coroutine,  *)
(* so other coroutines may run in between.  The stream reader awaits each  *)
(* frame's callbacks before it reads the next frame.                       *)
(***************************************************************************)
EXTENDS Integers, Sequences, FiniteSets, TLC

VARIABLES
    \* ---- venue (Binance futures account, one symbol)
    vprice,            \* last traded price on the venue
    pos,               \* positionSide -> [size, entry]
    stops,             \* open stop orders on the venue
    \* ---- price stream (BinancePriceStream)
    last_price,        \* latest price delivered by a ticker frame (0 = None)
    watches,           \* heap of watch_data dict objects: id -> record
    watched_prices,    \* the dict, in insertion order: sequence of ids
    snapshot,          \* rest of list(self.watched_prices.items()) of the frame
    cur,               \* id of the watch whose callback is running (0 = none)
    spc,               \* position of the stream reader coroutine
    cbl,               \* locals of the running callback
    \* ---- strategy (HedgingStrategy / StopStrategy fields)
    last_action,
    last_quantity,
    main_position_side,
    hedge_position_side,
    main_entry_price,
    hedge_entry_price,
    failure_count,
    active_stop_order_id,
    \* ---- webhook handler coroutines
    hs,                \* handler slot -> locals and position
    \* ---- history (observations used by the properties only)
    hist

vars == <<vprice, pos, stops, last_price, watches, watched_prices, snapshot, cur,
          spc, cbl, last_action, last_quantity, main_position_side,
          hedge_position_side, main_entry_price, hedge_entry_price, failure_count,
          active_stop_order_id, hs, hist>>

venueVars == <<vprice, pos, stops>>
streamVars == <<last_price, watches, watched_prices, snapshot, cur, spc, cbl>>
stratVars == <<last_action, last_quantity, main_position_side, hedge_position_side,
               main_entry_price, hedge_entry_price, failure_count,
               active_stop_order_id>>

(***************************************************************************)
(* Bounds of the model.                                                    *)
(***************************************************************************)
MaxPrice == 6          \* prices are ticks 1..MaxPrice
MaxSignals == 2        \* accepted webhook signals per run
MaxRestarts == 1       \* process restarts per run
MaxClientWatches == 2  \* watches an arbitrary client keeps registered at once
MaxFired == 2          \* callback invocations counted in the history
MaxHandlers == 2       \* webhook requests in flight at one time
MaxStopSignals == 3    \* accepted webhook signals per run of the stop strategy
MaxSubmitted == 2      \* stop orders counted per position in the history
MaxClassicSignals == 3 \* parsed webhook signals per run of the classic strategy
MaxCalls == 3          \* decorated client calls per run
MaxRequests == 3       \* calls of request_restart per run
MaxBody == 2           \* words in a webhook body
MaxConnections == 2    \* reconnects of the price stream per run
MaxSent == 2           \* orders kept in the history of sent orders
MaxOrders == 2         \* stop orders placed per run of the cancel specification

Prices == 1..MaxPrice
None == 0
NoSide == "none"
Sides == {"LONG", "SHORT"}
Opp(side) == IF side = "LONG" THEN "SHORT" ELSE "LONG"

(***************************************************************************)
(* Configuration (the .env values read through config_manager), chosen so  *)
(* that every level lands on the tick grid 1..MaxPrice.                    *)
(***************************************************************************)
leverage == 1
position_size == 1
classic_position_size == 4
tick_size == 1
activation_pnl == 0 - 100
sl_pnl == 0 - 300
trigger_pnl == 100
tp_pnl == 10
max_failures == 2
max_attempts == 3
activation_percent == 100
stop_percent == 0

(***************************************************************************)
(* Arithmetic helpers: Python's round() on a rational n/d, d > 0           *)
(* (round-half-to-even).                                                   *)
(***************************************************************************)
PyRound(n, d) ==
    LET q == n \div d
        r == n % d
    IN  IF 2 * r < d THEN q
        ELSE IF 2 * r > d THEN q + 1
        ELSE IF q % 2 = 0 THEN q ELSE q + 1

\* round_price: round(price / tick_size) * tick_size for price = n/d
round_price(n, d) == PyRound(n, d * tick_size) * tick_size

\* calculate_quantity: round(position_size * leverage / price / qty_step) * qty_step,
\* raised to min_qty (qty_step = min_qty = 1)
calculate_quantity(price) ==
    LET q == PyRound(position_size * leverage, price)
    IN  IF q < 1 THEN 1 ELSE q

(***************************************************************************)
(* Price stream: the watch primitive of BinancePriceStream.                *)
(*                                                                         *)
(* A watch_data dict is an object: the frame's list(...items()) and the    *)
(* dict itself may refer to the same object, and an object that was taken  *)
(* out of the dict is still evaluated if the frame's list holds it.        *)
(* `calls`, `far` and `cancelled` are not fields of the program: `calls`   *)
(* counts the invocations of on_reach, `far` tells that some frame since   *)
(* the registration carried a price on the far side of the barrier,        *)
(* `cancelled` that cancel_watch or cancel_all_watches took the watch out. *)
(***************************************************************************)
Range(s) == {s[i] : i \in 1..Len(s)}

NoCallback == [kind |-> "none", side |-> NoSide, price |-> None, epoch |-> 0, tp |-> None]

WatchData(target_price, direction, on_reach, barrier_price, barrier_side) ==
    [target_price |-> target_price, direction |-> direction, on_reach |-> on_reach,
     triggered |-> FALSE, barrier_price |-> barrier_price,
     barrier_side |-> barrier_side, barrier_crossed |-> FALSE, calls |-> 0,
     far |-> FALSE, cancelled |-> FALSE]

\* watch_key = f"{target_price}_{direction}_{barrier_price}_{barrier_side}"
WatchKey(w) == <<w.target_price, w.direction, w.barrier_price, w.barrier_side>>

\* The stream's watch state as seen by the code that registers and cancels:
\* the heap of watch_data objects and the dict (the ids of its values, in
\* insertion order).
Stream == [objs |-> watches, dict |-> watched_prices]

\* a fresh object
NewId(S) == Len(S.objs) + 1

KeyIndex(S, key) ==
    IF \E i \in 1..Len(S.dict) : WatchKey(S.objs[S.dict[i]]) = key
    THEN CHOOSE i \in 1..Len(S.dict) : WatchKey(S.objs[S.dict[i]]) = key
    ELSE 0

RemoveAt(s, i) == SubSeq(s, 1, i - 1) \o SubSeq(s, i + 1, Len(s))

\* self.watched_prices[watch_key] = {...}: a new object; an existing key keeps
\* its place in the dict and loses its old object.
watch_price(S, target_price, direction, on_reach, barrier_price, barrier_side) ==
    LET w == WatchData(target_price, direction, on_reach, barrier_price, barrier_side)
        n == NewId(S)
        i == KeyIndex(S, WatchKey(w))
    IN  [S EXCEPT !.objs = Append(S.objs, w),
                  !.dict = IF i = 0 THEN Append(S.dict, n) ELSE [S.dict EXCEPT ![i] = n]]

cancel_watch(S, key) ==
    LET i == KeyIndex(S, key)
    IN  IF i = 0 THEN S
        ELSE [S EXCEPT !.objs[S.dict[i]].cancelled = TRUE,
                       !.dict = RemoveAt(S.dict, i)]

cancel_all_watches(S) ==
    [S EXCEPT !.objs = [k \in 1..Len(S.objs) |->
                           IF k \in Range(S.dict)
                           THEN [S.objs[k] EXCEPT !.cancelled = TRUE]
                           ELSE S.objs[k]],
              !.dict = <<>>]

\* One pass of the loop body of _check_watched_prices over watch_data w:
\* the new barrier_crossed and whether should_trigger is set.
BarrierSet(w) == w.barrier_price # None /\ w.barrier_side # NoSide

\* a loop body that takes every barrier as crossed
BarrierTakenAsCrossed(w, price) == TRUE

BarrierCrossedNow(w, price) ==
    \/ w.barrier_crossed
    \/ w.barrier_side = "above" /\ price > w.barrier_price
    \/ w.barrier_side = "below" /\ price < w.barrier_price

TargetReached(w, price) ==
    \/ w.direction = "long" /\ price >= w.target_price
    \/ w.direction = "short" /\ price <= w.target_price

ShouldTrigger(w, price) ==
    IF BarrierSet(w)
    THEN BarrierCrossedNow(w, price) /\ TargetReached(w, price)
    ELSE TargetReached(w, price)

\* watch_data after the loop body has run up to the call of on_reach
Evaluated(w, price) ==
    LET c == IF BarrierSet(w) THEN BarrierCrossedNow(w, price) ELSE w.barrier_crossed
    IN  IF ShouldTrigger(w, price)
        THEN [w EXCEPT !.barrier_crossed = c, !.triggered = TRUE,
                       !.calls = IF @ < 2 THEN @ + 1 ELSE @]
        ELSE [w EXCEPT !.barrier_crossed = c]

\* the del statement left out: the dict keeps the entry of the fired watch
DelWatchKeySkipped(S, key) == [dict |-> S.dict, raised |-> FALSE]

\* del self.watched_prices[watch_key] after on_reach has returned: the entry
\* under the key goes, whichever object it holds now; a missing key raises
\* KeyError, which _process_message catches, so the frame ends there.
DelWatchKey(S, key) ==
    LET i == KeyIndex(S, key)
    IN  IF i = 0 THEN [dict |-> S.dict, raised |-> TRUE]
        ELSE [dict |-> RemoveAt(S.dict, i), raised |-> FALSE]

\* The objects still referred to, in a fixed order: the dict's values, then
\* what only the frame's list holds, then the watch whose callback runs.
Referred(dict, snap, c) ==
    LET d == Range(dict)
        rest == SelectSeq(snap, LAMBDA i : i \notin d)
    IN  dict \o rest \o (IF c = 0 \/ c \in d \cup Range(rest) THEN << >> ELSE <<c>>)

IndexIn(order, i) == CHOOSE k \in 1..Len(order) : order[k] = i

\* The stream variables after an action that leaves the heap objs, the dict,
\* the rest of the frame's list snap, the running watch c and position pc.
\* Objects nothing refers to are dropped and the ids are renumbered.
StreamIs(objs, dict, snap, c, pc) ==
    LET order == Referred(dict, snap, c)
    IN  /\ watches' = [k \in 1..Len(order) |-> objs[order[k]]]
        /\ watched_prices' = [k \in 1..Len(dict) |-> k]
        /\ snapshot' = [k \in 1..Len(snap) |-> IndexIn(order, snap[k])]
        /\ cur' = IF c = 0 THEN 0 ELSE IndexIn(order, c)
        /\ spc' = pc

\* The loop is at an entry whose callback it calls, or the frame is done.
LoopPc(snap) == IF snap = <<>> THEN "idle" ELSE "iter"

\* The for loop of _check_watched_prices over the entries that call no
\* callback: a triggered watch is skipped, a watch that should not trigger
\* keeps its place (barrier_crossed may be set).  The loop has no await
\* there, so it runs on to the first entry that fires or to its end.
RECURSIVE Advance(_, _, _)
Advance(objs, snap, price) ==
    IF snap = <<>> THEN [objs |-> objs, snap |-> snap]
    ELSE LET id == Head(snap)
             w == objs[id]
         IN  IF w.triggered THEN Advance(objs, Tail(snap), price)
             ELSE IF ShouldTrigger(w, price) THEN [objs |-> objs, snap |-> snap]
             ELSE Advance([objs EXCEPT ![id] = Evaluated(w, price)], Tail(snap), price)

StreamLoops(objs, dict, snap, price) ==
    LET a == Advance(objs, snap, price)
    IN  StreamIs(a.objs, dict, a.snap, 0, LoopPc(a.snap))

\* on_reach of watch id has returned with the watch state S: the del, then
\* the loop goes on with the rest of the list.
CallbackReturned(S, id, snap) ==
    LET d == DelWatchKey(S, WatchKey(S.objs[id]))
        rest == IF d.raised THEN <<>> ELSE snap
    IN  StreamLoops(S.objs, d.dict, rest, last_price)

\* the frame's price lies beyond the barrier of w, on the side w names
FarSide(w, price) ==
    \/ w.barrier_side = "above" /\ price > w.barrier_price
    \/ w.barrier_side = "below" /\ price < w.barrier_price

\* the heap when a frame carrying price arrives: what the registered watches
\* have seen of their barriers
FrameSeen(objs, price) ==
    [k \in 1..Len(objs) |-> [objs[k] EXCEPT !.far = @ \/ FarSide(objs[k], price)]]

\* _process_message: a ticker frame carrying price; last_price is set
\* and the watches are evaluated over a copy of the dict's items.
ProcessMessage(price) ==
    /\ spc = "idle"
    /\ last_price' = price
    /\ StreamLoops(FrameSeen(watches, price), watched_prices, watched_prices, price)

\* The watch at the head of the list fires on this frame.
HeadFires ==
    /\ spc = "iter"
    /\ ~watches[Head(snapshot)].triggered
    /\ ShouldTrigger(watches[Head(snapshot)], last_price)

\* The heap once the head watch has been marked triggered.
HeapFired == [watches EXCEPT ![Head(snapshot)] = Evaluated(@, last_price)]

(***************************************************************************)
(* Venue: a Binance USD-M futures account in hedge mode, one symbol.       *)
(* What the venue does with the requests of BinanceHedgingClient.          *)
(* A venue value is [pos, stops]; an operation returns the new venue and   *)
(* the result the client method hands back.                                *)
(***************************************************************************)
NoPosition == [size |-> 0, entry |-> None]
\* quantity is 0 for an order placed with closePosition
NoOrder == [position_side |-> NoSide, stop_price |-> None, epoch |-> 0,
            quantity |-> 0]
Venue == [pos |-> pos, stops |-> stops]

\* orders with timeInForce GTE_GTC end when the position they guard ends
DropStopsOfClosed(P, St) == {o \in St : P[o.position_side].size > 0}

\* futures_create_order(type='MARKET', positionSide=side) on the opening side
MarketOpen(V, side, quantity, price) ==
    LET p == V.pos[side]
        e == IF p.size = 0 THEN price
             ELSE PyRound(p.size * p.entry + quantity * price, p.size + quantity)
    IN  [V EXCEPT !.pos[side] = [size |-> p.size + quantity, entry |-> e]]

\* open_long_position / open_short_position
open_position(V, side, quantity, price) ==
    [venue |-> MarketOpen(V, side, quantity, price), result |-> TRUE]

\* close_position: a market order on the closing side of positionSide; the
\* venue rejects it when it exceeds the position
close_position(V, side, quantity) ==
    LET p == V.pos[side]
    IN  IF quantity > 0 /\ quantity <= p.size
        THEN LET q == p.size - quantity
                 P == [V.pos EXCEPT ![side] =
                          IF q = 0 THEN NoPosition ELSE [p EXCEPT !.size = q]]
             IN  [venue |-> [pos |-> P, stops |-> DropStopsOfClosed(P, V.stops)],
                  result |-> TRUE]
        ELSE [venue |-> V, result |-> FALSE]

\* a STOP_MARKET order that closes positionSide triggers on the mark price
StopTriggers(o, price) ==
    IF o.position_side = "LONG" THEN price <= o.stop_price
    ELSE price >= o.stop_price

\* place_stop_loss_order: STOP_MARKET, closePosition.  Rejected when it
\* would trigger immediately and when the side already has such an order.
place_stop_loss_order(V, position_side, stop_price, price, epoch) ==
    LET o == [position_side |-> position_side, stop_price |-> stop_price,
              epoch |-> epoch, quantity |-> 0]
    IN  IF \/ stop_price <= 0
           \/ StopTriggers(o, price)
           \/ \E x \in V.stops : x.position_side = position_side
        THEN [venue |-> V, result |-> NoOrder]
        ELSE [venue |-> [V EXCEPT !.stops = @ \cup {o}], result |-> o]

\* update_stop_loss_order: cancel the side's STOP_MARKET order, place the new
update_stop_loss_order(V, position_side, new_stop_price, price, epoch) ==
    LET W == [V EXCEPT !.stops = {o \in @ : o.position_side # position_side}]
        r == place_stop_loss_order(W, position_side, new_stop_price, price, epoch)
    IN  [venue |-> r.venue, result |-> r.result # NoOrder]

\* cancel_all_stop_losses: every STOP_MARKET order of the symbol
cancel_all_stop_losses(V) == [venue |-> [V EXCEPT !.stops = {}], result |-> TRUE]

\* get_all_positions: the positions with size > 0, in the venue's listing order
get_all_positions(V, listing) == SelectSeq(listing, LAMBDA sd : V.pos[sd].size > 0)

\* get_exact_entry_price
get_exact_entry_price(V, position_side) ==
    IF position_side \in Sides /\ V.pos[position_side].size # 0
    THEN V.pos[position_side].entry ELSE None

\* the mark price moves: triggered stop orders close their positions
PriceMoves(V, price) ==
    LET hit == {o \in V.stops : StopTriggers(o, price)}
        P == [sd \in Sides |->
                 IF \E o \in hit : o.position_side = sd THEN NoPosition
                 ELSE V.pos[sd]]
    IN  [pos |-> P, stops |-> DropStopsOfClosed(P, V.stops \ hit)]

Listings == {<<"LONG", "SHORT">>, <<"SHORT", "LONG">>}

VenueIs(V) == pos' = V.pos /\ stops' = V.stops

(***************************************************************************)
(* Initial state: the process has just been constructed, the venue account *)
(* is flat, no frame has arrived.                                          *)
(***************************************************************************)
NoLocals == [pc |-> "none", success |-> FALSE, entry_price |-> None,
             current_price |-> None, result |-> NoOrder, tp_price |-> None,
             position |-> << >>]

\* a request's headers as get_client_ip reads them: X-Forwarded-For as the
\* list of its comma-separated elements (<< >> when the header is absent or
\* empty), X-Real-IP and the peer address
NoAddress == "none"
NoRequest == [forwarded |-> << >>, real_ip |-> NoAddress, host |-> NoAddress]

Slots == 1..MaxHandlers
IdleHandler == [pc |-> "idle", action_side |-> NoSide, all_positions |-> << >>,
                success |-> FALSE, entry_price |-> None, current_price |-> None,
                epoch |-> 0, main_side |-> NoSide, quantity |-> 0,
                func |-> "none", attempt_number |-> 0, open_stops |-> {},
                request |-> NoRequest, body |-> << >>, failed |-> FALSE]

\* limit: the failure limit was reached at a moment when no accepted signal
\* was being handled, and no signal has been accepted since
\* signals: webhook signals parsed since the start of the run of the model;
\* done: accepted signals whose handler has returned success; prev: the
\* action of the latest recognised signal of this process run; response: the
\* answer to the last webhook; startup: the side of the position the last
\* startup found, until the first signal after it
\* calls: decorated client calls made; attempts, reported: the number of
\* times the last completed call invoked the wrapped function, and what it
\* gave back to its caller
\* restart_in_progress, restart_lock: the restart manager's module globals
\* (the lock's holder, 0 when free); requests: calls of request_restart made;
\* restart_threads: RestartThreads started in this process
\* connection_count: reconnects of the price stream (its connection_count
\* less the first connection)
\* sent: orders handed to futures_create_order with a price
\* known: the stop orders the venue has accepted; tried: those for which a
\* cancel request was answered; last: the last cancel call, its result,
\* whether the venue answered it, whether an answered cancel of the same id
\* preceded it, and whether the order was open when it was made
NoHistory == [restarts |-> 0, fired |-> 0, accepted |-> 0, ordered |-> 0,
              submitted |-> 0, limit |-> FALSE, signals |-> 0, done |-> 0,
              prev |-> "none", response |-> "none", startup |-> NoSide,
              calls |-> 0, attempts |-> 0, reported |-> "none",
              restart_in_progress |-> FALSE, restart_lock |-> 0,
              requests |-> 0, restart_threads |-> 0, connection_count |-> 0,
              sent |-> {}, known |-> {}, tried |-> {},
              last |-> [order |-> NoOrder, result |-> FALSE, answered |-> FALSE,
                        again |-> FALSE, open |-> FALSE]]

\* history: one more callback invocation by _check_watched_prices
Fired(h) == [h EXCEPT !.fired = IF @ < MaxFired THEN @ + 1 ELSE @]

InitBase ==
    /\ vprice = None
    /\ pos = [s \in Sides |-> NoPosition]
    /\ stops = {}
    /\ last_price = None
    /\ watches = << >>
    /\ watched_prices = << >>
    /\ snapshot = << >>
    /\ cur = 0
    /\ spc = "idle"
    /\ cbl = NoLocals
    /\ last_action = "none"
    /\ last_quantity = None
    /\ main_position_side = NoSide
    /\ hedge_position_side = NoSide
    /\ main_entry_price = None
    /\ hedge_entry_price = None
    /\ failure_count = 0
    /\ active_stop_order_id = NoOrder
    /\ hs = [h \in Slots |-> IdleHandler]
    /\ hist = NoHistory

(***************************************************************************)
(* Strategy state as one value, and the frame conditions of the actions.   *)
(***************************************************************************)
Strategy ==
    [last_action |-> last_action, last_quantity |-> last_quantity,
     main_position_side |-> main_position_side,
     hedge_position_side |-> hedge_position_side,
     main_entry_price |-> main_entry_price,
     hedge_entry_price |-> hedge_entry_price,
     failure_count |-> failure_count,
     active_stop_order_id |-> active_stop_order_id]

StrategyIs(T) ==
    /\ last_action' = T.last_action
    /\ last_quantity' = T.last_quantity
    /\ main_position_side' = T.main_position_side
    /\ hedge_position_side' = T.hedge_position_side
    /\ main_entry_price' = T.main_entry_price
    /\ hedge_entry_price' = T.hedge_entry_price
    /\ failure_count' = T.failure_count
    /\ active_stop_order_id' = T.active_stop_order_id

\* the stream reader is between frames or suspended in a callback's await:
\* the points where the event loop runs another coroutine
LoopYields == spc \in {"idle", "cb"}

\* the stream as the other coroutines leave it
StreamKeeps(S) == StreamIs(S.objs, S.dict, snapshot, cur, spc)

(***************************************************************************)
(* Webhook messages and the signal filter (all strategies).                *)
(***************************************************************************)
Messages == [buy : BOOLEAN, sell : BOOLEAN]

\* a parser that takes every text without buy for a sell
ParseAnything(message) == IF message.buy THEN "buy" ELSE "sell"

\* parse_message: "buy" if the text contains buy, else "sell" if it contains
\* sell, else None
parse_message(message) ==
    IF message.buy THEN "buy" ELSE IF message.sell THEN "sell" ELSE "none"

\* a filter that records only the first signal's action
AcceptWithoutRecording(T, action) ==
    [ok |-> T.last_action # action,
     T |-> IF T.last_action = "none" THEN [T EXCEPT !.last_action = action] ELSE T]

\* should_process_signal: the verdict and last_action after it
AcceptEverySignal(T, action) == [ok |-> TRUE, T |-> [T EXCEPT !.last_action = action]]

should_process_signal(T, action) ==
    IF T.last_action = "none" THEN [ok |-> TRUE, T |-> [T EXCEPT !.last_action = action]]
    ELSE IF T.last_action = action THEN [ok |-> FALSE, T |-> T]
    ELSE [ok |-> TRUE, T |-> [T EXCEPT !.last_action = action]]

(***************************************************************************)
(* Hedging strategy: price levels (BinanceHedgingClient).                  *)
(***************************************************************************)
\* entry_price +- pnl / (100 * leverage), rounded to the tick
calculate_activation_price(entry_price, position_side, pnl) ==
    IF position_side = "LONG"
    THEN round_price(entry_price * 100 * leverage + pnl, 100 * leverage)
    ELSE round_price(entry_price * 100 * leverage - pnl, 100 * leverage)

calculate_stop_loss_price(entry_price, position_side, stop_pnl) ==
    IF position_side = "LONG"
    THEN round_price(entry_price * 100 * leverage + stop_pnl, 100 * leverage)
    ELSE round_price(entry_price * 100 * leverage - stop_pnl, 100 * leverage)

calculate_trigger_price(entry_price, position_side, pnl) ==
    IF position_side = "LONG"
    THEN round_price(entry_price * 100 * leverage + pnl, 100 * leverage)
    ELSE round_price(entry_price * 100 * leverage - pnl, 100 * leverage)

\* entry_price * (1 +- pnl / (100 * leverage)), rounded to the tick
calculate_new_stop_price(entry_price, position_side, pnl) ==
    IF position_side = "LONG"
    THEN round_price(entry_price * (100 * leverage + pnl), 100 * leverage)
    ELSE round_price(entry_price * (100 * leverage - pnl), 100 * leverage)

(***************************************************************************)
(* Hedging strategy: the watch callbacks it creates, and the two places    *)
(* that arm the activation watch.                                          *)
(***************************************************************************)
HedgingCallback(kind, epoch, tp) ==
    [kind |-> kind, side |-> NoSide, price |-> None, epoch |-> epoch, tp |-> tp]

\* _start_hedging_cycle
start_hedging_cycle(S, T, epoch) ==
    IF T.main_entry_price = None THEN S
    ELSE watch_price(S,
             calculate_activation_price(T.main_entry_price, T.main_position_side,
                                        activation_pnl),
             IF T.main_position_side = "LONG" THEN "short" ELSE "long",
             HedgingCallback("activation", epoch, None), None, NoSide)

\* a strategy that re-arms the cycle whatever the number of failures
HedgingNeverDisabled(T) == FALSE

\* _on_sl_price_reached: the failure limit is reached, the cycle is not re-armed
HedgingDisabled(T) == T.failure_count >= max_failures

\* _restart_hedging_cycle; tp is the TP level the cycle restarts from, if any
restart_hedging_cycle(S, T, epoch, tp) ==
    IF T.main_entry_price = None THEN S
    ELSE watch_price(S,
             calculate_activation_price(T.main_entry_price, T.main_position_side,
                                        activation_pnl),
             IF T.main_position_side = "LONG" THEN "short" ELSE "long",
             HedgingCallback("activation", epoch, tp), None, NoSide)

(***************************************************************************)
(* Hedging strategy: the webhook handler coroutine.                        *)
(* process_webhook -> process_signal -> _handle_no_position /              *)
(* _handle_existing_position, cut at its awaits of the venue.              *)
(***************************************************************************)
\* process_webhook returns its result to the request: the coroutine is gone
Done(h, success) == IdleHandler

HandlerStep(slot, h, V, S, T) ==
    /\ hs' = [hs EXCEPT ![slot] = h]
    /\ VenueIs(V)
    /\ StreamKeeps(S)
    /\ StrategyIs(T)
    /\ UNCHANGED <<vprice, last_price, cbl, hist>>

FreeSlot == CHOOSE f \in Slots :
                hs[f].pc = "idle" /\ \A g \in Slots : hs[g].pc = "idle" => f <= g

\* a request reaches process_webhook: parse, duplicate filter, and the first
\* venue call of process_signal (get_all_positions) is issued
H_Arrive(message, listing) ==
    /\ LoopYields
    /\ hist.accepted < MaxSignals
    /\ \E f \in Slots : hs[f].pc = "idle"
    /\ LET action == parse_message(message)
           f == should_process_signal(Strategy, action)
           listed == get_all_positions(Venue, listing)
       IN  IF action # "none" /\ f.ok
           THEN /\ StrategyIs(f.T)
                /\ hs' = [hs EXCEPT ![FreeSlot] =
                            [IdleHandler EXCEPT
                               !.pc = "positions",
                               !.action_side = IF action = "buy" THEN "LONG" ELSE "SHORT",
                               !.all_positions =
                                  [k \in 1..Len(listed) |->
                                      [side |-> listed[k], size |-> pos[listed[k]].size,
                                       entry_price |-> pos[listed[k]].entry]],
                               !.epoch = hist.accepted + 1,
                               !.main_side = main_position_side]]
                /\ hist' = [hist EXCEPT !.accepted = @ + 1, !.limit = FALSE]
           ELSE UNCHANGED <<stratVars, hs, hist>>
    /\ UNCHANGED <<venueVars, streamVars>>

\* _open_new_main_position up to its market order
OpenNewMain(slot, h, S, T) ==
    IF last_price = None
    THEN HandlerStep(slot, Done(h, FALSE), Venue, S, T)
    ELSE LET r == open_position(Venue, h.action_side, calculate_quantity(last_price),
                                vprice)
         IN  HandlerStep(slot, [h EXCEPT !.pc = "opened", !.success = r.result,
                                         !.current_price = last_price],
                         r.venue, S, T)

\* _close_main_position: the market order that closes all_positions[0]
CloseMain(slot, h, S, T) ==
    LET r == close_position(Venue, h.all_positions[1].side, h.all_positions[1].size)
    IN  HandlerStep(slot, [h EXCEPT !.pc = "closed", !.success = r.result],
                    r.venue, S, T)

\* get_all_positions has answered: process_signal branches
H_Positions(slot) ==
    /\ LoopYields
    /\ hs[slot].pc = "positions"
    /\ LET h == hs[slot]
       IN  IF h.all_positions = << >>
           THEN OpenNewMain(slot, h, Stream, Strategy)
           ELSE IF h.all_positions[1].side = h.action_side
           THEN HandlerStep(slot, Done(h, TRUE), Venue, Stream, Strategy)
           ELSE \* _cancel_all_watches_and_stops
                IF active_stop_order_id # NoOrder
                THEN HandlerStep(slot, [h EXCEPT !.pc = "stops_cancelled"],
                                 cancel_all_stop_losses(Venue).venue,
                                 cancel_all_watches(Stream), Strategy)
                ELSE CloseMain(slot, h, cancel_all_watches(Stream), Strategy)

\* cancel_all_stop_losses has answered
H_StopsCancelled(slot) ==
    /\ LoopYields
    /\ hs[slot].pc = "stops_cancelled"
    /\ CloseMain(slot, hs[slot], Stream,
                 [Strategy EXCEPT !.active_stop_order_id = NoOrder])

\* close_position has answered (its result is not looked at)
H_Closed(slot) ==
    /\ LoopYields
    /\ hs[slot].pc = "closed"
    /\ LET h == hs[slot]
           T == [Strategy EXCEPT
                    !.main_position_side = h.all_positions[2].side,
                    !.main_entry_price = last_price,
                    !.hedge_position_side = Opp(h.all_positions[2].side),
                    !.hedge_entry_price = None,
                    !.active_stop_order_id = NoOrder,
                    !.failure_count = 0]
       IN  IF Len(h.all_positions) = 1
           THEN OpenNewMain(slot, h, Stream, Strategy)
           ELSE IF last_price = None
           THEN \* formatting main_entry_price = None raises: process_signal fails
                HandlerStep(slot, Done(h, FALSE), Venue, Stream, T)
           ELSE HandlerStep(slot, Done(h, TRUE), Venue,
                            start_hedging_cycle(Stream, T, h.epoch), T)

\* the market order has answered
H_Opened(slot) ==
    /\ LoopYields
    /\ hs[slot].pc = "opened"
    /\ LET h == hs[slot]
           T == [Strategy EXCEPT !.main_position_side = h.action_side,
                                 !.hedge_position_side = Opp(h.action_side)]
       IN  IF ~h.success
           THEN HandlerStep(slot, Done(h, FALSE), Venue, Stream, Strategy)
           ELSE HandlerStep(slot,
                    [h EXCEPT !.pc = "entry",
                              !.entry_price = get_exact_entry_price(Venue, h.action_side)],
                    Venue, Stream, T)

\* get_exact_entry_price has answered: the main is recorded, the cycle starts
H_Entry(slot) ==
    /\ LoopYields
    /\ hs[slot].pc = "entry"
    /\ LET h == hs[slot]
           T == [Strategy EXCEPT
                    !.main_entry_price = IF h.entry_price # None THEN h.entry_price
                                         ELSE h.current_price,
                    !.hedge_entry_price = None,
                    !.failure_count = 0,
                    !.active_stop_order_id = NoOrder]
       IN  HandlerStep(slot, Done(h, TRUE), Venue,
                       start_hedging_cycle(Stream, T, h.epoch), T)

(***************************************************************************)
(* Hedging strategy: the watch callbacks.  A callback starts inside the    *)
(* frame's evaluation loop (await on_reach(current_price)) and runs to its *)
(* first await of the venue; the loop goes on when the callback returns.   *)
(***************************************************************************)
FiredStream == [objs |-> HeapFired, dict |-> watched_prices]

HeadKind == watches[Head(snapshot)].on_reach.kind

\* the callback returns without having awaited: the loop continues at once
ReturnsRecording(S, T, V, H) ==
    /\ CallbackReturned(S, Head(snapshot), Tail(snapshot))
    /\ StrategyIs(T)
    /\ VenueIs(V)
    /\ cbl' = NoLocals
    /\ hist' = H
    /\ UNCHANGED <<vprice, last_price, hs>>

ReturnsAtOnce(S, T, V) == ReturnsRecording(S, T, V, hist)

\* the callback suspends in a venue call
Suspends(S, T, V, locals) ==
    /\ StreamIs(S.objs, S.dict, Tail(snapshot), Head(snapshot), "cb")
    /\ StrategyIs(T)
    /\ VenueIs(V)
    /\ cbl' = locals
    /\ UNCHANGED <<vprice, last_price, hs, hist>>

\* a suspended callback goes on to its next venue call
Continues(T, V, locals) ==
    /\ StreamKeeps(Stream)
    /\ StrategyIs(T)
    /\ VenueIs(V)
    /\ cbl' = locals
    /\ UNCHANGED <<vprice, last_price, hs, hist>>

\* a suspended callback returns
Returns(S, T, V) ==
    /\ CallbackReturned(S, cur, snapshot)
    /\ StrategyIs(T)
    /\ VenueIs(V)
    /\ cbl' = NoLocals
    /\ UNCHANGED <<vprice, last_price, hs, hist>>

\* _on_activation_price_reached -> _open_hedge_position, to its market order
HF_Activation ==
    /\ HeadFires
    /\ HeadKind = "activation"
    /\ IF hedge_position_side = NoSide
       THEN ReturnsAtOnce(FiredStream, Strategy, Venue)
       ELSE LET r == open_position(Venue, hedge_position_side,
                                   calculate_quantity(last_price), vprice)
            IN  Suspends(FiredStream, Strategy, r.venue,
                         [NoLocals EXCEPT !.pc = "h_opened", !.success = r.result,
                                          !.current_price = last_price])

\* the hedge's market order has answered: ask for the entry price
CB_HedgeOpened ==
    /\ spc = "cb"
    /\ cbl.pc = "h_opened"
    /\ IF ~cbl.success
       THEN Returns(Stream, Strategy, Venue)
       ELSE Continues(Strategy, Venue,
                [cbl EXCEPT !.pc = "h_entry",
                    !.entry_price = get_exact_entry_price(Venue, hedge_position_side)])

\* the entry price has answered: _set_hedge_stop_loss places the stop order
CB_HedgeEntry ==
    /\ spc = "cb"
    /\ cbl.pc = "h_entry"
    /\ IF cbl.entry_price = None \/ hedge_position_side = NoSide
       THEN Returns(Stream,
                    IF cbl.entry_price = None THEN Strategy
                    ELSE [Strategy EXCEPT !.hedge_entry_price = cbl.entry_price],
                    Venue)
       ELSE LET T == [Strategy EXCEPT !.hedge_entry_price = cbl.entry_price]
                r == place_stop_loss_order(Venue, hedge_position_side,
                         calculate_stop_loss_price(cbl.entry_price,
                                                   hedge_position_side, sl_pnl),
                         vprice, hist.accepted)
            IN  Continues(T, r.venue, [cbl EXCEPT !.pc = "h_sl", !.result = r.result])

\* the SL and trigger watches of _set_hedge_stop_loss
HedgeWatches(S, T, sl_price, epoch) ==
    LET short == T.hedge_position_side = "SHORT"
        trigger_price == calculate_trigger_price(T.hedge_entry_price,
                                                 T.hedge_position_side, trigger_pnl)
        S1 == watch_price(S, sl_price, IF short THEN "long" ELSE "short",
                          HedgingCallback("sl", epoch, None),
                          T.main_entry_price, IF short THEN "below" ELSE "above")
    IN  watch_price(S1, trigger_price, IF short THEN "short" ELSE "long",
                    HedgingCallback("trigger", epoch, None),
                    T.main_entry_price, IF short THEN "above" ELSE "below")

\* the stop order has answered: record it and register the two watches
CB_HedgeSl ==
    /\ spc = "cb"
    /\ cbl.pc = "h_sl"
    /\ IF cbl.result = NoOrder
       THEN Returns(Stream, Strategy, Venue)
       ELSE LET T == [Strategy EXCEPT !.active_stop_order_id = cbl.result]
            IN  IF T.hedge_entry_price = None
                THEN \* calculate_trigger_price(None, ...) raises
                     Returns(Stream, T, Venue)
                ELSE Returns(HedgeWatches(Stream, T, cbl.result.stop_price,
                                          hist.accepted), T, Venue)

\* _on_sl_price_reached: no await suspends, the callback runs to its end
HF_Sl ==
    /\ HeadFires
    /\ HeadKind = "sl"
    /\ LET T == [Strategy EXCEPT !.failure_count = @ + 1,
                                 !.active_stop_order_id = NoOrder,
                                 !.hedge_entry_price = None]
           S == cancel_all_watches(FiredStream)
       IN  IF HedgingDisabled(T)
           THEN ReturnsRecording(S, T, Venue,
                                 [hist EXCEPT !.limit = \A q \in Slots :
                                                           hs[q].pc = "idle"])
           ELSE ReturnsAtOnce(restart_hedging_cycle(S, T, hist.accepted, None),
                              T, Venue)

\* _on_trigger_price_reached, to update_stop_loss_order
HF_Trigger ==
    /\ HeadFires
    /\ HeadKind = "trigger"
    /\ LET S == cancel_all_watches(FiredStream)
           tp_price == calculate_new_stop_price(hedge_entry_price,
                                                hedge_position_side, tp_pnl)
           r == update_stop_loss_order(Venue, hedge_position_side, tp_price,
                                       vprice, hist.accepted)
       IN  IF hedge_entry_price = None
           THEN \* calculate_new_stop_price(None, ...) raises
                ReturnsAtOnce(S, Strategy, Venue)
           ELSE Suspends(S, Strategy, r.venue,
                         [NoLocals EXCEPT !.pc = "t_updated", !.success = r.result,
                                          !.current_price = last_price,
                                          !.tp_price = tp_price])

\* update_stop_loss_order has answered: register the TP watch
CB_TriggerUpdated ==
    /\ spc = "cb"
    /\ cbl.pc = "t_updated"
    /\ LET short == hedge_position_side = "SHORT"
       IN  IF cbl.success
           THEN Returns(watch_price(Stream, cbl.tp_price,
                                    IF short THEN "long" ELSE "short",
                                    HedgingCallback("tp", hist.accepted, cbl.tp_price),
                                    cbl.current_price,
                                    IF short THEN "below" ELSE "above"),
                        Strategy, Venue)
           ELSE Returns(Stream, Strategy, Venue)

\* a take-profit callback that also clears the failure counter
HF_TpResetting ==
    /\ HeadFires
    /\ HeadKind = "tp"
    /\ LET T == [Strategy EXCEPT !.active_stop_order_id = NoOrder,
                                 !.hedge_entry_price = None,
                                 !.failure_count = 0]
           S == cancel_all_watches(FiredStream)
       IN  ReturnsAtOnce(restart_hedging_cycle(S, T, hist.accepted,
                                               watches[Head(snapshot)].target_price),
                         T, Venue)

\* _on_tp_price_reached: no await suspends, the callback runs to its end
HF_Tp ==
    /\ HeadFires
    /\ HeadKind = "tp"
    /\ LET T == [Strategy EXCEPT !.active_stop_order_id = NoOrder,
                                 !.hedge_entry_price = None]
           S == cancel_all_watches(FiredStream)
       IN  ReturnsAtOnce(restart_hedging_cycle(S, T, hist.accepted,
                                               watches[Head(snapshot)].target_price),
                         T, Venue)

(***************************************************************************)
(* Hedging strategy: start-up after a restart, and the environment.        *)
(***************************************************************************)
NoStrategy ==
    [last_action |-> "none", last_quantity |-> None,
     main_position_side |-> NoSide, hedge_position_side |-> NoSide,
     main_entry_price |-> None, hedge_entry_price |-> None,
     failure_count |-> 0, active_stop_order_id |-> NoOrder]

\* _restore_state_after_restart on a freshly constructed HedgingStrategy
restore_state_after_restart(V, listing) ==
    LET all_positions == get_all_positions(V, listing)
        main == all_positions[1]
    IN  IF all_positions = << >> THEN NoStrategy
        ELSE [NoStrategy EXCEPT
                 !.main_position_side = main,
                 !.main_entry_price = V.pos[main].entry,
                 !.last_action = IF main = "LONG" THEN "buy" ELSE "sell",
                 !.hedge_position_side = IF Len(all_positions) > 1
                                         THEN all_positions[2] ELSE Opp(main),
                 !.hedge_entry_price = IF Len(all_positions) > 1
                                       THEN V.pos[all_positions[2]].entry ELSE None]

\* the restart manager re-executes the process image: every coroutine and
\* the watch set are gone, the venue keeps its positions and orders
H_Restart(listing) ==
    /\ LoopYields
    /\ hist.restarts < MaxRestarts
    /\ StrategyIs(restore_state_after_restart(Venue, listing))
    /\ StreamIs(<< >>, << >>, << >>, 0, "idle")
    /\ last_price' = None
    /\ cbl' = NoLocals
    /\ hs' = [h \in Slots |-> IdleHandler]
    /\ hist' = [hist EXCEPT !.restarts = @ + 1]
    /\ UNCHANGED venueVars

\* the mark price moves on the venue; the ticker frame with the new price
\* is read at once when the stream reader is free
H_Tick(price) ==
    /\ LoopYields
    /\ \A q \in Slots : hs[q].pc = "idle"
    /\ price # vprice
    /\ vprice' = price
    /\ VenueIs(PriceMoves(Venue, price))
    /\ IF spc = "idle"
       THEN ProcessMessage(price)
       ELSE UNCHANGED <<last_price, watches, watched_prices, snapshot, cur, spc>>
    /\ UNCHANGED <<cbl, stratVars, hs, hist>>

\* the stream reader is free again and reads the latest ticker frame
H_Frame ==
    /\ vprice # last_price
    /\ ProcessMessage(vprice)
    /\ UNCHANGED <<venueVars, cbl, stratVars, hs, hist>>

NextHedging ==
    \/ \E price \in Prices : H_Tick(price)
    \/ H_Frame
    \/ HF_Activation
    \/ CB_HedgeOpened
    \/ CB_HedgeEntry
    \/ CB_HedgeSl
    \/ HF_Sl
    \/ HF_Trigger
    \/ CB_TriggerUpdated
    \/ HF_Tp
    \/ \E message \in Messages, listing \in Listings : H_Arrive(message, listing)
    \/ \E slot \in Slots : H_Positions(slot)
    \/ \E slot \in Slots : H_StopsCancelled(slot)
    \/ \E slot \in Slots : H_Closed(slot)
    \/ \E slot \in Slots : H_Opened(slot)
    \/ \E slot \in Slots : H_Entry(slot)
    \/ \E listing \in Listings : H_Restart(listing)

SpecHedging == InitBase /\ [][NextHedging]_vars

(***************************************************************************)
(* Venue in one-way mode (BinanceStopClient): one position per symbol,     *)
(* kept in pos under its direction ("LONG" is side 'Buy', "SHORT" 'Sell'). *)
(* A STOP order is reduce-only; its limit price is one unit from its stop  *)
(* price, and it is taken as filled when it triggers.                      *)
(***************************************************************************)
\* get_current_position: << >> is None
get_current_position(V) ==
    LET listed == SelectSeq(<<"LONG", "SHORT">>, LAMBDA sd : V.pos[sd].size > 0)
    IN  [k \in 1..Len(listed) |->
            [side |-> listed[k], size |-> V.pos[listed[k]].size,
             entry_price |-> V.pos[listed[k]].entry]]

\* futures_create_order(type='MARKET'), buying (side "LONG") or selling
OneWayMarket(V, side, quantity, price) ==
    LET held == V.pos[Opp(side)].size
    IN  IF held = 0 THEN MarketOpen(V, side, quantity, price)
        ELSE IF quantity < held
        THEN [V EXCEPT !.pos[Opp(side)].size = held - quantity]
        ELSE IF quantity = held
        THEN [V EXCEPT !.pos[Opp(side)] = NoPosition]
        ELSE [V EXCEPT !.pos[Opp(side)] = NoPosition,
                       !.pos[side] = [size |-> quantity - held, entry |-> price]]

\* place_stop_limit_order: rejected when there is nothing to reduce on
\* position_side and when it would trigger immediately
place_stop_limit_order(V, position_side, quantity, stop_price, price, epoch) ==
    LET o == [position_side |-> position_side, stop_price |-> stop_price,
              epoch |-> epoch, quantity |-> quantity]
    IN  IF \/ V.pos[position_side].size = 0
           \/ stop_price <= 0
           \/ StopTriggers(o, price)
        THEN [venue |-> V, result |-> NoOrder]
        ELSE [venue |-> [V EXCEPT !.stops = @ \cup {o}], result |-> o]

\* cancel_all_stops: every reduce-only STOP order on the closing side of
\* position_side
cancel_all_stops(V, position_side) ==
    [venue |-> [V EXCEPT !.stops = {o \in @ : o.position_side # position_side}],
     result |-> TRUE]

RECURSIVE Quantity(_)
Quantity(St) ==
    IF St = {} THEN 0
    ELSE LET o == CHOOSE x \in St : TRUE
         IN  o.quantity + Quantity(St \ {o})

\* the mark price moves: triggered STOP orders reduce their position
PriceMovesOneWay(V, price) ==
    LET hit == {o \in V.stops : StopTriggers(o, price)}
        P == [sd \in Sides |->
                 LET q == Quantity({o \in hit : o.position_side = sd})
                 IN  IF q >= V.pos[sd].size THEN NoPosition
                     ELSE [V.pos[sd] EXCEPT !.size = @ - q]]
    IN  [pos |-> P, stops |-> V.stops \ hit]

(***************************************************************************)
(* Stop strategy (StopStrategy): levels and the activation watch.          *)
(***************************************************************************)
\* entry_price * (1 +- percent / (100 * leverage)); the configuration keeps
\* the quotient exact
StopLevel(entry_price, position_side, percent) ==
    IF position_side = "LONG"
    THEN (entry_price * (100 * leverage + percent)) \div (100 * leverage)
    ELSE (entry_price * (100 * leverage - percent)) \div (100 * leverage)

\* _calculate_stop_levels
calculate_stop_levels(entry_price, position_side) ==
    [activation_price |-> StopLevel(entry_price, position_side, activation_percent),
     stop_limit_price |-> StopLevel(entry_price, position_side, stop_percent)]

\* _create_stop_callback: the closure keeps position_side and stop_limit_price
StopCallback(position_side, stop_limit_price, epoch) ==
    [kind |-> "stop", side |-> position_side, price |-> stop_limit_price,
     epoch |-> epoch, tp |-> None]

\* _start_stop_monitoring
start_stop_monitoring(S, position_side, entry_price, epoch) ==
    LET l == calculate_stop_levels(entry_price, position_side)
    IN  watch_price(S, l.activation_price,
                    IF position_side = "LONG" THEN "long" ELSE "short",
                    StopCallback(position_side, l.stop_limit_price, epoch),
                    None, NoSide)

(***************************************************************************)
(* Stop strategy: the webhook handler coroutine, cut at its awaits of the  *)
(* venue.  process_webhook -> process_signal -> _open_new_position /       *)
(* _reverse_position.                                                      *)
(***************************************************************************)
\* history: the market order of signal `epoch` is issued, a position begins
Ordered(H, epoch) ==
    [H EXCEPT !.ordered = IF epoch > @ THEN epoch ELSE @, !.submitted = 0]

\* history: the venue has taken one more stop order for the position
Submitted(H, result) ==
    IF result = NoOrder THEN H
    ELSE [H EXCEPT !.submitted = IF @ < MaxSubmitted THEN @ + 1 ELSE @]

StopStep(slot, h, V, S, T, H) ==
    /\ hs' = [hs EXCEPT ![slot] = h]
    /\ VenueIs(V)
    /\ StreamKeeps(S)
    /\ StrategyIs(T)
    /\ hist' = H
    /\ UNCHANGED <<vprice, last_price, cbl>>

\* a request reaches process_webhook: parse, duplicate filter, and the first
\* venue call of process_signal (get_current_position) is issued; open_stops
\* remembers the stop orders open on the venue at that moment
S_Arrive(message) ==
    /\ LoopYields
    /\ hist.accepted < MaxStopSignals
    /\ \E f \in Slots : hs[f].pc = "idle"
    /\ LET action == parse_message(message)
           f == should_process_signal(Strategy, action)
       IN  IF action # "none" /\ f.ok
           THEN /\ StrategyIs(f.T)
                /\ hs' = [hs EXCEPT ![FreeSlot] =
                            [IdleHandler EXCEPT
                               !.pc = "s_position",
                               !.action_side = IF action = "buy" THEN "LONG" ELSE "SHORT",
                               !.all_positions = get_current_position(Venue),
                               !.epoch = hist.accepted + 1,
                               !.open_stops = stops]]
                /\ hist' = [hist EXCEPT !.accepted = @ + 1]
           ELSE UNCHANGED <<stratVars, hs, hist>>
    /\ UNCHANGED <<venueVars, streamVars>>

\* get_current_position has answered: process_signal branches
S_Position(slot) ==
    /\ LoopYields
    /\ hs[slot].pc = "s_position"
    /\ LET h == hs[slot]
           quantity == calculate_quantity(last_price)
       IN  IF h.all_positions # << >> /\ h.all_positions[1].side = h.action_side
           THEN StopStep(slot, Done(h, TRUE), Venue, Stream, Strategy, hist)
           ELSE IF last_price = None
           THEN StopStep(slot, Done(h, FALSE), Venue, Stream, Strategy, hist)
           ELSE IF h.all_positions = << >>
           THEN \* _open_new_position, to its market order
                StopStep(slot, [h EXCEPT !.pc = "s_opened", !.success = TRUE],
                         OneWayMarket(Venue, h.action_side, quantity, vprice),
                         Stream, [Strategy EXCEPT !.last_quantity = quantity],
                         Ordered(hist, h.epoch))
           ELSE \* _reverse_position, to cancel_all_stops
                StopStep(slot, [h EXCEPT !.pc = "s_stops_cancelled",
                                         !.current_price = last_price],
                         cancel_all_stops(Venue, IF last_action = "sell" THEN "LONG"
                                                 ELSE "SHORT").venue,
                         Stream, Strategy, hist)

\* cancel_all_stops has answered: reverse_position_fast asks for the position
S_StopsCancelled(slot) ==
    /\ LoopYields
    /\ hs[slot].pc = "s_stops_cancelled"
    /\ LET h == hs[slot]
           new_quantity == calculate_quantity(h.current_price)
           total_quantity == IF last_quantity = None THEN new_quantity * 2
                             ELSE last_quantity + new_quantity
       IN  StopStep(slot, [h EXCEPT !.pc = "s_reverse_pos",
                                    !.quantity = total_quantity,
                                    !.all_positions = get_current_position(Venue)],
                    Venue, Stream, Strategy, hist)

\* reverse_position_fast: the market order against the position it was told
S_ReversePos(slot) ==
    /\ LoopYields
    /\ hs[slot].pc = "s_reverse_pos"
    /\ LET h == hs[slot]
       IN  IF h.all_positions = << >>
           THEN StopStep(slot, Done(h, FALSE), Venue, Stream, Strategy, hist)
           ELSE StopStep(slot, [h EXCEPT !.pc = "s_reversed", !.success = TRUE],
                         OneWayMarket(Venue, Opp(h.all_positions[1].side),
                                      h.quantity, vprice),
                         Stream, Strategy, Ordered(hist, h.epoch))

\* the reversing order has answered: ask for the new position
S_Reversed(slot) ==
    /\ LoopYields
    /\ hs[slot].pc = "s_reversed"
    /\ LET h == hs[slot]
       IN  StopStep(slot, [h EXCEPT !.pc = "s_new_position",
                                    !.all_positions = get_current_position(Venue)],
                    Venue, Stream,
                    [Strategy EXCEPT !.last_quantity = calculate_quantity(h.current_price)],
                    hist)

\* the new position has answered: its activation watch is registered
S_NewPosition(slot) ==
    /\ LoopYields
    /\ hs[slot].pc = "s_new_position"
    /\ LET h == hs[slot]
       IN  StopStep(slot, Done(h, TRUE), Venue,
                    IF h.all_positions = << >> THEN Stream
                    ELSE start_stop_monitoring(Stream, h.all_positions[1].side,
                                               h.all_positions[1].entry_price, h.epoch),
                    Strategy, hist)

\* the opening order has answered: ask for the entry price
S_Opened(slot) ==
    /\ LoopYields
    /\ hs[slot].pc = "s_opened"
    /\ LET h == hs[slot]
           p == get_current_position(Venue)
       IN  StopStep(slot, [h EXCEPT !.pc = "s_entry",
                                    !.entry_price = IF p = << >> THEN None
                                                    ELSE p[1].entry_price],
                    Venue, Stream, Strategy, hist)

\* get_exact_entry_price has answered: the activation watch is registered
S_Entry(slot) ==
    /\ LoopYields
    /\ hs[slot].pc = "s_entry"
    /\ LET h == hs[slot]
       IN  StopStep(slot, Done(h, TRUE), Venue,
                    IF h.entry_price = None THEN Stream
                    ELSE start_stop_monitoring(Stream, h.action_side, h.entry_price,
                                               h.epoch),
                    Strategy, hist)

(***************************************************************************)
(* Stop strategy: the activation callback, start-up after a restart, and   *)
(* the environment.                                                        *)
(***************************************************************************)
\* _on_activation_price_reached, to get_current_position
S_Activation ==
    /\ HeadFires
    /\ HeadKind = "stop"
    /\ Suspends(FiredStream, Strategy, Venue,
                [NoLocals EXCEPT !.pc = "a_position",
                                 !.position = get_current_position(Venue)])

\* the position has answered: the stop-limit order of the closure's side and
\* level is placed for the size found
S_CbPosition ==
    /\ spc = "cb"
    /\ cbl.pc = "a_position"
    /\ IF cbl.position = << >>
       THEN Returns(Stream, Strategy, Venue)
       ELSE LET f == watches[cur].on_reach
                stop_price == IF f.side = "LONG" THEN f.price + 1 ELSE f.price - 1
                r == place_stop_limit_order(Venue, f.side, cbl.position[1].size,
                                            stop_price, vprice, f.epoch)
            IN  /\ StreamKeeps(Stream)
                /\ VenueIs(r.venue)
                /\ cbl' = [cbl EXCEPT !.pc = "a_placed", !.result = r.result]
                /\ hist' = Submitted(hist, r.result)
                /\ UNCHANGED <<vprice, last_price, stratVars, hs>>

\* place_stop_limit_order has answered: the order id is stored
S_CbPlaced ==
    /\ spc = "cb"
    /\ cbl.pc = "a_placed"
    /\ Returns(Stream,
               IF cbl.result = NoOrder THEN Strategy
               ELSE [Strategy EXCEPT !.active_stop_order_id = cbl.result],
               Venue)

\* a startup that restores the direction only
restore_stop_action(V) ==
    LET p == get_current_position(V)
    IN  IF p = << >> THEN NoStrategy
        ELSE [NoStrategy EXCEPT
                 !.last_action = IF p[1].side = "LONG" THEN "buy" ELSE "sell"]

\* _restore_state_after_restart on a freshly constructed StopStrategy
restore_stop_state(V) ==
    LET p == get_current_position(V)
    IN  IF p = << >> THEN NoStrategy
        ELSE [NoStrategy EXCEPT
                 !.last_action = IF p[1].side = "LONG" THEN "buy" ELSE "sell",
                 !.last_quantity = p[1].size]

\* the restart manager re-executes the process image
S_Restart ==
    /\ LoopYields
    /\ hist.restarts < MaxRestarts
    /\ StrategyIs(restore_stop_state(Venue))
    /\ StreamIs(<< >>, << >>, << >>, 0, "idle")
    /\ last_price' = None
    /\ cbl' = NoLocals
    /\ hs' = [h \in Slots |-> IdleHandler]
    /\ hist' = [hist EXCEPT !.restarts = @ + 1]
    /\ UNCHANGED venueVars

\* the mark price moves on the venue; the ticker frame with the new price
\* is read at once when the stream reader is free
S_Tick(price) ==
    /\ LoopYields
    /\ \A q \in Slots : hs[q].pc = "idle"
    /\ price # vprice
    /\ vprice' = price
    /\ VenueIs(PriceMovesOneWay(Venue, price))
    /\ IF spc = "idle"
       THEN ProcessMessage(price)
       ELSE UNCHANGED <<last_price, watches, watched_prices, snapshot, cur, spc>>
    /\ UNCHANGED <<cbl, stratVars, hs, hist>>

NextStop ==
    \/ \E price \in Prices : S_Tick(price)
    \/ H_Frame
    \/ S_Activation
    \/ S_CbPosition
    \/ S_CbPlaced
    \/ \E message \in Messages : S_Arrive(message)
    \/ \E slot \in Slots : S_Position(slot)
    \/ \E slot \in Slots : S_StopsCancelled(slot)
    \/ \E slot \in Slots : S_ReversePos(slot)
    \/ \E slot \in Slots : S_Reversed(slot)
    \/ \E slot \in Slots : S_NewPosition(slot)
    \/ \E slot \in Slots : S_Opened(slot)
    \/ \E slot \in Slots : S_Entry(slot)
    \/ S_Restart

SpecStop == InitBase /\ [][NextStop]_vars

(***************************************************************************)
(* SpecWatch: the watch primitive under an arbitrary client.  The client   *)
(* registers and cancels watches between frames and, as a callback or as   *)
(* another coroutine, while a callback is suspended in an await.           *)
(***************************************************************************)
ClientCallback == [kind |-> "client", side |-> NoSide, price |-> None, epoch |-> 0, tp |-> None]

\* what the client may pass to watch_price / cancel_watch
ClientTargets == {3}
ClientBarriers == {<<None, NoSide>>, <<3, "above">>, <<3, "below">>}

W_Frame(price) ==
    /\ vprice' = price
    /\ ProcessMessage(price)
    /\ UNCHANGED <<pos, stops, cbl, stratVars, hs, hist>>

\* await on_reach(current_price): the client's callback starts and suspends
W_Fire ==
    /\ HeadFires
    /\ StreamIs(HeapFired, watched_prices, Tail(snapshot), Head(snapshot), "cb")
    /\ hist' = Fired(hist)
    /\ UNCHANGED <<venueVars, last_price, cbl, stratVars, hs>>

\* the client's callback returns
W_Return ==
    /\ spc = "cb"
    /\ CallbackReturned(Stream, cur, snapshot)
    /\ UNCHANGED <<venueVars, last_price, cbl, stratVars, hs, hist>>

ClientMayRun == spc \in {"idle", "cb"}

W_Watch(target, direction, barrier) ==
    /\ ClientMayRun
    /\ Len(watched_prices) < MaxClientWatches
    /\ LET S == watch_price(Stream, target, direction, ClientCallback,
                            barrier[1], barrier[2])
       IN  StreamIs(S.objs, S.dict, snapshot, cur, spc)
    /\ UNCHANGED <<venueVars, last_price, cbl, stratVars, hs, hist>>

W_Cancel(target, direction, barrier) ==
    /\ ClientMayRun
    /\ LET S == cancel_watch(Stream, <<target, direction, barrier[1], barrier[2]>>)
       IN  StreamIs(S.objs, S.dict, snapshot, cur, spc)
    /\ UNCHANGED <<venueVars, last_price, cbl, stratVars, hs, hist>>

W_CancelAll ==
    /\ ClientMayRun
    /\ watched_prices # << >>
    /\ LET S == cancel_all_watches(Stream)
       IN  StreamIs(S.objs, S.dict, snapshot, cur, spc)
    /\ UNCHANGED <<venueVars, last_price, cbl, stratVars, hs, hist>>

NextWatch ==
    \/ \E p \in Prices : W_Frame(p)
    \/ W_Fire
    \/ W_Return
    \/ \E t \in ClientTargets, d \in {"long", "short"}, b \in ClientBarriers :
          W_Watch(t, d, b)
    \/ \E t \in ClientTargets, d \in {"long", "short"}, b \in ClientBarriers :
          W_Cancel(t, d, b)
    \/ W_CancelAll

SpecWatch == InitBase /\ [][NextWatch]_vars

(***************************************************************************)
(* Classic strategy (ClassicStrategy) over the venue in one-way mode       *)
(* (ClassicBinanceClient): no stops, no watches; a reversal is one market  *)
(* order of last_quantity + new_quantity.  A venue order may fail: the     *)
(* client catches the exception and returns False.                         *)
(***************************************************************************)
\* ClassicBinanceClient.calculate_quantity with qty_step = min_qty = 1
calculate_classic_quantity(price) ==
    LET q == PyRound(classic_position_size * leverage, price)
    IN  IF q < 1 THEN 1 ELSE q

\* open_long_position / open_short_position / the order of
\* reverse_position_fast: ok tells whether the venue took the order
classic_market_order(V, side, quantity, price, ok) ==
    [venue |-> IF ok THEN OneWayMarket(V, side, quantity, price) ELSE V,
     result |-> ok]

\* a startup that restores nothing
restore_nothing(V) == NoStrategy

\* _restore_state_after_restart on a freshly constructed ClassicStrategy
restore_classic_state(V) ==
    LET p == get_current_position(V)
    IN  IF p = << >> THEN NoStrategy
        ELSE [NoStrategy EXCEPT
                 !.last_action = IF p[1].side = "LONG" THEN "buy" ELSE "sell",
                 !.last_quantity = p[1].size]

ClassicStep(slot, h, V, T, H) ==
    /\ hs' = [hs EXCEPT ![slot] = h]
    /\ VenueIs(V)
    /\ StrategyIs(T)
    /\ hist' = H
    /\ UNCHANGED <<vprice, streamVars>>

\* process_webhook returns: the history counts a success
Returned(H, success) == IF success THEN [H EXCEPT !.done = @ + 1] ELSE H

\* a request reaches process_webhook: parse, duplicate filter, and the first
\* venue call of process_signal (get_current_position) is issued; when the
\* call fails (ok is FALSE) the client catches the exception and gives None
K_Request(message, ok) ==
    /\ hist.signals < MaxClassicSignals
    /\ \E f \in Slots : hs[f].pc = "idle"
    /\ LET action == parse_message(message)
           f == should_process_signal(Strategy, action)
           H == [hist EXCEPT !.signals = @ + 1, !.startup = NoSide]
       IN  IF action = "none"
           THEN UNCHANGED <<stratVars, hs, hist>>
           ELSE IF ~f.ok
           THEN /\ hist' = [H EXCEPT !.prev = action, !.response = "ignored"]
                /\ UNCHANGED <<stratVars, hs>>
           ELSE /\ StrategyIs(f.T)
                /\ hs' = [hs EXCEPT ![FreeSlot] =
                            [IdleHandler EXCEPT
                               !.pc = "k_position",
                               !.action_side = IF action = "buy" THEN "LONG" ELSE "SHORT",
                               !.all_positions = IF ok THEN get_current_position(Venue)
                                                 ELSE << >>,
                               !.epoch = hist.accepted + 1,
                               !.failed = ~ok]]
                /\ hist' = [H EXCEPT !.accepted = @ + 1, !.prev = action,
                                     !.response = "accepted"]
    /\ UNCHANGED <<venueVars, streamVars>>

\* the same with a venue that answers
K_Arrive(message) == K_Request(message, TRUE)

\* get_current_position has answered: process_signal branches
K_Position(slot, ok) ==
    /\ hs[slot].pc = "k_position"
    /\ LET h == hs[slot]
           quantity == calculate_classic_quantity(last_price)
           total_quantity == IF last_quantity = None THEN quantity * 2
                             ELSE last_quantity + quantity
           r == classic_market_order(Venue, h.action_side, quantity, vprice, ok)
       IN  IF h.all_positions # << >> /\ h.all_positions[1].side = h.action_side
           THEN \* _handle_existing_position: already in the signal's direction
                ClassicStep(slot, Done(h, TRUE), Venue, Strategy, Returned(hist, TRUE))
           ELSE IF last_price = None
           THEN ClassicStep(slot, Done(h, FALSE), Venue, Strategy, hist)
           ELSE IF h.all_positions = << >>
           THEN \* _open_new_position, to its market order
                ClassicStep(slot, [h EXCEPT !.pc = "k_opened", !.success = r.result],
                            r.venue, [Strategy EXCEPT !.last_quantity = quantity], hist)
           ELSE \* _reverse_position, to reverse_position_fast's position query
                ClassicStep(slot, [h EXCEPT !.pc = "k_reverse_pos",
                                            !.current_price = last_price,
                                            !.quantity = total_quantity,
                                            !.all_positions = get_current_position(Venue)],
                            Venue, Strategy, hist)

\* a handler that gives last_action back when its order has failed
K_OpenedRollingBack(slot) ==
    /\ hs[slot].pc = "k_opened"
    /\ LET h == hs[slot]
       IN  ClassicStep(slot, Done(h, h.success), Venue,
                       IF h.success THEN Strategy
                       ELSE [Strategy EXCEPT !.last_action = "none"],
                       Returned(hist, h.success))

\* the market order of _open_new_position has answered
K_Opened(slot) ==
    /\ hs[slot].pc = "k_opened"
    /\ LET h == hs[slot]
       IN  ClassicStep(slot, Done(h, h.success), Venue, Strategy,
                       Returned(hist, h.success))

\* reverse_position_fast: the market order against the position it was told
K_ReversePos(slot, ok) ==
    /\ hs[slot].pc = "k_reverse_pos"
    /\ LET h == hs[slot]
       IN  IF h.all_positions = << >>
           THEN ClassicStep(slot, Done(h, FALSE), Venue, Strategy, hist)
           ELSE LET r == classic_market_order(Venue, Opp(h.all_positions[1].side),
                                              h.quantity, vprice, ok)
                IN  ClassicStep(slot, [h EXCEPT !.pc = "k_reversed",
                                                !.success = r.result],
                                r.venue, Strategy, hist)

\* reverse_position_fast has answered: only new_quantity is stored
K_Reversed(slot) ==
    /\ hs[slot].pc = "k_reversed"
    /\ LET h == hs[slot]
           new_quantity == calculate_classic_quantity(h.current_price)
       IN  ClassicStep(slot, Done(h, h.success), Venue,
                       IF h.success THEN [Strategy EXCEPT !.last_quantity = new_quantity]
                       ELSE Strategy,
                       Returned(hist, h.success))

\* the restart manager re-executes the process image
K_Restart ==
    /\ hist.restarts < MaxRestarts
    /\ LET T == restore_classic_state(Venue)
           found == get_current_position(Venue)
       IN  /\ StrategyIs(T)
           /\ hist' = [hist EXCEPT !.restarts = @ + 1, !.prev = "none",
                                   !.response = "none",
                                   !.accepted = 0, !.done = 0,
                                   !.startup = IF found = << >> THEN NoSide
                                               ELSE found[1].side]
    /\ last_price' = None
    /\ hs' = [h \in Slots |-> IdleHandler]
    /\ UNCHANGED <<venueVars, watches, watched_prices, snapshot, cur, spc, cbl>>

\* a ticker frame with a new price
K_Tick(price) ==
    /\ price # vprice
    /\ vprice' = price
    /\ last_price' = price
    /\ UNCHANGED <<pos, stops, watches, watched_prices, snapshot, cur, spc, cbl,
                   stratVars, hs, hist>>

NextClassic ==
    \/ \E price \in Prices : K_Tick(price)
    \/ \E message \in Messages : K_Arrive(message)
    \/ \E slot \in Slots, ok \in BOOLEAN : K_Position(slot, ok)
    \/ \E slot \in Slots : K_Opened(slot)
    \/ \E slot \in Slots, ok \in BOOLEAN : K_ReversePos(slot, ok)
    \/ \E slot \in Slots : K_Reversed(slot)
    \/ K_Restart

SpecClassic == InitBase /\ [][NextClassic]_vars

\* the classic strategy over a venue whose position query may fail as well
NextClassicFaults ==
    \/ NextClassic
    \/ \E message \in Messages : K_Request(message, FALSE)

SpecClassicFaults == InitBase /\ [][NextClassicFaults]_vars

(***************************************************************************)
(* Properties of the hedging strategy (SpecHedging).                       *)
(***************************************************************************)
InFlight == {s \in Slots : hs[s].pc # "idle"}

RegisteredWatches == {watches[watched_prices[i]] : i \in 1..Len(watched_prices)}

ActivationRegistered == \E w \in RegisteredWatches : w.on_reach.kind = "activation"

\* the callback is between the hedge's market order and its return
PlacingHedge == cbl.pc \in {"h_opened", "h_entry", "h_sl"}

\* this step issues the hedge's market order
HedgeOrderIssued == cbl.pc # "h_opened" /\ cbl'.pc = "h_opened"

\* this step is the return of process_webhook in handler s
Completes(s) ==
    /\ hs[s].pc # "idle"
    /\ hs'[s].pc = "idle"
    /\ hist'.restarts = hist.restarts

(* C1.  Webhook signals are processed one at a time: between the duplicate *)
(* filter's check of a signal and the return of its last venue call no     *)
(* other signal is being processed.                                        *)
C1_OneSignalAtATime == Cardinality(InFlight) <= 1

(* C2.  A watch callback and a signal handler never interleave: while a    *)
(* callback is between two of its venue calls, no signal handler is        *)
(* between two of its own.                                                 *)
C2_NoInterleaving == ~(spc = "cb" /\ cbl.pc # "none" /\ InFlight # {})

(* C3.  No second hedge is opened while one is open: the hedge's market    *)
(* order is issued only when the venue holds no position on the hedge      *)
(* side.                                                                   *)
C3_HedgeOnce ==
    [][HedgeOrderIssued => pos[hedge_position_side].size = 0]_vars

(* C4.  The activation watch that is re-armed when the TP watch fires has  *)
(* barrier_price = tp_price and barrier_side = below for a Long main       *)
(* (whose activation watch has direction short), above for a Short main.   *)
C4_TpRearmBarrier ==
    \A w \in RegisteredWatches :
       (w.on_reach.kind = "activation" /\ w.on_reach.tp # None)
          => /\ w.barrier_price = w.on_reach.tp
             /\ w.barrier_side = IF w.direction = "short" THEN "below" ELSE "above"

StopCallbackStarts == cbl.pc # "a_position" /\ cbl'.pc = "a_position"

(* C6.  In the stop strategy the activation watch of a position does not   *)
(* fire once the market order of a later accepted signal has been issued:  *)
(* a callback that starts belongs to the latest signal that has ordered.   *)
C6_OldWatchNeverFires ==
    [][StopCallbackStarts => watches'[cur'].on_reach.epoch >= hist.ordered]_vars

(* C7.  In the stop strategy the venue takes at most one stop order for    *)
(* each position that was opened or reversed into.                         *)
C7_OneStopPerPosition == hist.submitted <= 1

(* C8.  When a signal is accepted while the venue holds the main and the   *)
(* hedge position, then at the end of its processing the former main is    *)
(* closed, the former hedge is the only open position and it is recorded   *)
(* as the main.                                                            *)
C8_HedgeBecomesMain ==
    [][\A s \in Slots :
          (Completes(s) /\ Len(hs[s].all_positions) = 2 /\ hs[s].main_side # NoSide)
             => /\ pos'[hs[s].main_side].size = 0
                /\ pos'[Opp(hs[s].main_side)].size > 0
                /\ main_position_side' = Opp(hs[s].main_side)]_vars

(* C9.  At the end of the processing of an accepted signal opposite to the *)
(* open main position, no watch registered before the signal is registered *)
(* and no stop order placed before the signal is open on the venue.        *)
C9_NothingOlderLeft ==
    [][\A s \in Slots :
          (/\ Completes(s)
           /\ hs[s].all_positions # << >>
           /\ hs[s].all_positions[1].side # hs[s].action_side)
             => /\ \A w \in {watches'[watched_prices'[i]] : i \in 1..Len(watched_prices')} :
                      w.on_reach.epoch >= hs[s].epoch
                /\ \A o \in stops' : o.epoch >= hs[s].epoch]_vars

(***************************************************************************)
(* C10.  A price watch is single-shot: the callback of one watch_price     *)
(* registration is invoked at most once, whatever frames, cancellations    *)
(* and registrations follow, and once it has fired (its callback has       *)
(* returned) the watch is not registered any more.  While the callback is  *)
(* still running the fired watch is the one the stream is awaiting (cur).  *)
(***************************************************************************)
C10_SingleShot ==
    /\ \A id \in DOMAIN watches : watches[id].calls <= 1
    /\ \A i \in 1..Len(watched_prices) :
          watches[watched_prices[i]].calls >= 1
             => (spc = "cb" /\ cur = watched_prices[i])

\* a watch has fired and its callback has returned, the frame is over, and
\* another watch is still registered and has not fired
C10_Witness ==
    /\ hist.fired >= 1
    /\ spc = "idle"
    /\ watched_prices # << >>
    /\ \A i \in 1..Len(watched_prices) : watches[watched_prices[i]].calls = 0

(***************************************************************************)
(* Properties of the watch primitive, continued (SpecWatch).               *)
(***************************************************************************)
(* C11.  The callback of a watch registered with a barrier is invoked only *)
(* if some frame since the registration carried a price above the barrier  *)
(* (side above) or below it (side below).                                  *)
C11_BarrierGate ==
    \A i \in 1..Len(watches) :
       (BarrierSet(watches[i]) /\ watches[i].calls >= 1) => watches[i].far

\* the callback of a barrier watch is running
C11_Witness ==
    /\ spc = "cb"
    /\ BarrierSet(watches[cur])
    /\ watches[cur].calls = 1

\* this step starts the callback of the watch at the head of the frame's list
CallbackStarts == spc = "iter" /\ spc' = "cb"

(* C12.  The callback of a watch is not started once cancel_watch for its  *)
(* key or cancel_all_watches has taken the watch out, in the frame being   *)
(* evaluated or in a later one.                                            *)
C12_CancelledNeverFires ==
    [][CallbackStarts => ~watches[Head(snapshot)].cancelled]_vars

(***************************************************************************)
(* Properties of the classic strategy (SpecClassic).                       *)
(***************************************************************************)
ActionSide(action) == IF action = "buy" THEN "LONG" ELSE "SHORT"

\* every signal accepted in this process run has returned with success
AllAcceptedSucceeded ==
    /\ InFlight = {}
    /\ hist.accepted >= 1
    /\ hist.done = hist.accepted

\* C13: once every accepted signal has been handled and all its orders
\* succeeded, the venue position is on the side of the latest accepted
\* signal and its size equals the stored last_quantity
C13_ReversalLaw ==
    AllAcceptedSucceeded =>
        /\ pos[ActionSide(hist.prev)].size = last_quantity
        /\ pos[Opp(ActionSide(hist.prev))].size = 0

\* a webhook with a recognised action is answered
SignalAnswered == hist'.signals = hist.signals + 1

\* C14: within one process run, a signal whose action is that of the signal
\* before it is dropped with the ignored response, and no handler (hence no
\* venue call) is started for it
C14_NoConsecutiveDuplicates ==
    [][(SignalAnswered /\ hist.prev # "none" /\ hist'.prev = hist.prev)
         => /\ hist'.response = "ignored"
            /\ UNCHANGED <<venueVars, hs>>]_vars

\* the first signal passed and the same action right after it was dropped
C14_Witness ==
    /\ hist.restarts = 0
    /\ hist.signals = 2
    /\ hist.accepted = 1
    /\ hist.response = "ignored"

\* the first signal after a startup that found a position, in the
\* direction of that position
FirstSameDirectionSignal ==
    /\ SignalAnswered
    /\ hist.startup # NoSide
    /\ ActionSide(hist'.prev) = hist.startup

\* C15 as stated: the first signal after a startup that found a position,
\* in the direction of that position, is accepted by the duplicate filter
C15_FirstSameDirectionAccepted ==
    [][FirstSameDirectionSignal => hist'.response = "accepted"]_vars

\* C15 amended: that signal is dropped by the duplicate filter with the
\* ignored response; no handler is started and no venue order is sent
C15_FirstSameDirectionDropped ==
    [][FirstSameDirectionSignal
         => /\ hist'.response = "ignored"
            /\ UNCHANGED <<venueVars, hs, stratVars>>]_vars

\* after a restart that found a position the first signal was dropped
C15_Witness ==
    /\ hist.restarts = 1
    /\ hist.response = "ignored"
    /\ hist.accepted = 0
    /\ hist.startup = NoSide
    /\ last_action # "none"
    /\ InFlight = {}

(***************************************************************************)
(* The retry decorator around the client's venue calls (SpecRetry).        *)
(***************************************************************************)
Outcomes == {"ok", "error"}

\* the quantity argument of a call
OrderQuantities == 1..2

\* the decorated functions: the hedging client's open_long_position, and
\* the earlier BinanceClient._open_position
Decorated == {"open_long_position", "_open_position"}

\* HedgingBinanceClient.open_long_position: the whole body is in a try
\* whose except Exception logs and returns False
open_long_position(V, quantity, price, outcome) ==
    [venue |-> IF outcome = "ok" THEN MarketOpen(V, "LONG", quantity, price) ELSE V,
     raised |-> FALSE,
     value |-> outcome = "ok"]

\* BinanceClient._open_position: futures_create_order is awaited outside
\* any try, its exception leaves the function
api_open_position(V, quantity, price, outcome) ==
    [venue |-> IF outcome = "ok" THEN MarketOpen(V, "LONG", quantity, price) ELSE V,
     raised |-> outcome = "error",
     value |-> outcome = "ok"]

Wrapped(func, V, quantity, price, outcome) ==
    IF func = "open_long_position" THEN open_long_position(V, quantity, price, outcome)
    ELSE api_open_position(V, quantity, price, outcome)

\* tenacity's decision after one attempt: retry_if_exception_type(Exception),
\* stop_after_attempt(max_attempts), reraise=True
retry_on_api_error(r, attempt_number) ==
    IF ~r.raised THEN IF r.value THEN "success" ELSE "failure"
    ELSE IF attempt_number >= max_attempts THEN "raised"
    ELSE "sleep"

\* a strategy coroutine calls a decorated client function
R_Call(slot, func, quantity) ==
    /\ hist.calls < MaxCalls
    /\ hs[slot].pc = "idle"
    /\ hs' = [hs EXCEPT ![slot] = [IdleHandler EXCEPT !.pc = "r_attempt",
                                                      !.func = func,
                                                      !.quantity = quantity,
                                                      !.attempt_number = 1]]
    /\ hist' = [hist EXCEPT !.calls = @ + 1]
    /\ UNCHANGED <<venueVars, streamVars, stratVars>>

\* one attempt: the wrapped function runs and the decorator decides
R_Attempt(slot, outcome) ==
    /\ hs[slot].pc = "r_attempt"
    /\ LET h == hs[slot]
           r == Wrapped(h.func, Venue, h.quantity, vprice, outcome)
           next == retry_on_api_error(r, h.attempt_number)
       IN  /\ VenueIs(r.venue)
           /\ IF next = "sleep"
              THEN /\ hs' = [hs EXCEPT ![slot].pc = "r_sleep"]
                   /\ UNCHANGED hist
              ELSE /\ hs' = [hs EXCEPT ![slot] = IdleHandler]
                   /\ hist' = [hist EXCEPT !.attempts = h.attempt_number,
                                           !.reported = next]
    /\ UNCHANGED <<vprice, streamVars, stratVars>>

\* the exponential wait is over: the next attempt
R_Retry(slot) ==
    /\ hs[slot].pc = "r_sleep"
    /\ hs' = [hs EXCEPT ![slot].pc = "r_attempt", ![slot].attempt_number = @ + 1]
    /\ UNCHANGED <<venueVars, streamVars, stratVars, hist>>

NextRetry ==
    \/ \E price \in Prices : K_Tick(price)
    \/ \E slot \in Slots, func \in Decorated, quantity \in OrderQuantities :
          R_Call(slot, func, quantity)
    \/ \E slot \in Slots, outcome \in Outcomes : R_Attempt(slot, outcome)
    \/ \E slot \in Slots : R_Retry(slot)

SpecRetry == InitBase /\ [][NextRetry]_vars

\* C16: a failure is given back to the caller only after max_attempts
\* attempts were made
C16_FailureAfterAllAttempts ==
    hist.reported \in {"failure", "raised"} => hist.attempts = max_attempts

(***************************************************************************)
(* Properties of the PnL-derived prices (SpecHedging).                     *)
(***************************************************************************)
\* entry x (1 +- pnl / (100 x leverage)), rounded to the tick: + for a long
\* position, - for a short one
LeverageAdjusted(entry_price, position_side, pnl) ==
    IF position_side = "LONG"
    THEN round_price(entry_price * (100 * leverage + pnl), 100 * leverage)
    ELSE round_price(entry_price * (100 * leverage - pnl), 100 * leverage)

\* C17: the activation watch stands at the leverage-adjusted multiplicative
\* price of the main entry, the stop-loss and trigger watches at those of
\* the hedge entry
C17_MultiplicativePrices ==
    \A w \in RegisteredWatches :
       /\ (w.on_reach.kind = "activation" /\ main_entry_price # None
             /\ main_position_side # NoSide)
            => w.target_price = LeverageAdjusted(main_entry_price, main_position_side,
                                                 activation_pnl)
       /\ (w.on_reach.kind = "sl" /\ hedge_entry_price # None
             /\ hedge_position_side # NoSide)
            => w.target_price = LeverageAdjusted(hedge_entry_price, hedge_position_side,
                                                 sl_pnl)
       /\ (w.on_reach.kind = "trigger" /\ hedge_entry_price # None
             /\ hedge_position_side # NoSide)
            => w.target_price = LeverageAdjusted(hedge_entry_price, hedge_position_side,
                                                 trigger_pnl)

\* this step gives main_entry_price a value that get_exact_entry_price gave
\* back for the new main, that get_all_positions gave back for the hedge
\* that becomes the main, or that the startup query gave back
MainEntryReadBack ==
    \/ \E s \in Slots : /\ hs[s].pc = "entry"
                        /\ hs[s].entry_price # None
                        /\ main_entry_price' = hs[s].entry_price
    \/ \E s \in Slots : /\ hs[s].pc = "closed"
                        /\ Len(hs[s].all_positions) > 1
                        /\ main_entry_price' = hs[s].all_positions[2].entry_price
    \/ /\ hist'.restarts = hist.restarts + 1
       /\ main_position_side' # NoSide
       /\ main_entry_price' = pos[main_position_side'].entry

\* C18: the entry price the activation price is derived from is always one
\* read back from the venue, never the stream's price
C18_EntryFromVenue ==
    [][(main_entry_price' # main_entry_price /\ main_entry_price' # None)
         => MainEntryReadBack]_vars

\* the stream reader evaluates a frame in this step
FrameEvaluated == spc = "idle" /\ last_price' # last_price /\ last_price' # None

\* a registered trigger watch that has not fired has its target reached by
\* the price of the frame
TriggerReached ==
    \E i \in Range(watched_prices) :
       /\ watches[i].on_reach.kind = "trigger"
       /\ ~watches[i].triggered
       /\ TargetReached(watches[i], last_price')

\* C19: a frame whose price reaches trigger_price fires the TRIGGER watch on
\* that frame
C19_TriggerFires ==
    [][(FrameEvaluated /\ TriggerReached)
         => (spc' = "iter" /\ watches'[Head(snapshot')].on_reach.kind = "trigger")]_vars

\* C20: the number of losing hedges counted never exceeds max_failures
C20_FailureCountBounded == failure_count <= max_failures

\* the limit has been reached and the cycle is stopped: no watch is left
C20_Witness ==
    /\ failure_count = max_failures
    /\ watched_prices = << >>
    /\ spc = "idle"
    /\ main_position_side # NoSide

(***************************************************************************)
(* Properties of the failure counter's resets (SpecHedging).               *)
(***************************************************************************)
\* this step is the end of _open_new_main_position in some handler
OpensFreshMain == \E s \in Slots : hs[s].pc = "entry" /\ hs'[s].pc = "idle"

\* this step makes the hedge the main in some handler
PromotesHedge ==
    \E s \in Slots : /\ hs[s].pc = "closed"
                     /\ Len(hs[s].all_positions) > 1
                     /\ hs'[s].pc = "idle"

ProcessRestarts == hist'.restarts = hist.restarts + 1

\* this step runs the take-profit callback
TpCallbackRuns ==
    /\ spc = "iter"
    /\ watches[Head(snapshot)].on_reach.kind = "tp"
    /\ ~ProcessRestarts

\* C21 as stated: within a process run failure_count decreases only to 0
\* and only when a new signal has opened a fresh main position, and a
\* take-profit exit leaves it unchanged
C21_ResetOnlyByFreshMain ==
    [][/\ (failure_count' < failure_count /\ ~ProcessRestarts)
            => (failure_count' = 0 /\ OpensFreshMain)
       /\ TpCallbackRuns => failure_count' = failure_count]_vars

\* C21 amended: failure_count decreases only to 0 and only when a new signal
\* has opened a fresh main position or has made the hedge the main, or when
\* the process restarts; a take-profit exit leaves it unchanged
C21_ResetOnlyBySignal ==
    [][/\ failure_count' < failure_count
            => (failure_count' = 0
                  /\ (OpensFreshMain \/ PromotesHedge \/ ProcessRestarts))
       /\ TpCallbackRuns => failure_count' = failure_count]_vars

\* a take-profit exit has re-armed the cycle and the losing hedges counted
\* before it are still counted
C21_Witness ==
    /\ failure_count >= 1
    /\ \E w \in RegisteredWatches :
          w.on_reach.kind = "activation" /\ w.on_reach.tp # None


(***************************************************************************)
(* Properties of the stop strategy: stop orders around a new signal.       *)
(***************************************************************************)
\* the market order of the signal in `slot` is issued
MarketOrderIssued(slot) ==
    /\ hs[slot].pc \in {"s_position", "s_reverse_pos"}
    /\ hs'[slot].pc \in {"s_opened", "s_reversed"}

\* stop orders resting on the venue against a position that is open
LiveStops == {o \in stops : pos[o.position_side].size > 0}

\* C22: in the stop variant, a stop order that was live for the open position
\* when a signal was accepted is no longer on the venue when that signal's
\* market order is submitted: the handler has cancelled it before.
C22_StopCancelledBeforeOrder ==
    [][\A s \in Slots : MarketOrderIssued(s) => hs[s].open_stops \cap LiveStops = {}]_vars

\* no webhook handler and no callback is in progress
Quiescent == InFlight = {} /\ spc = "idle" /\ cbl.pc = "none"

\* pending stop: an activation watch of the stop strategy is armed and has
\* not fired
PendingStop == \E w \in RegisteredWatches : w.on_reach.kind = "stop" /\ ~w.triggered

\* C23: in the stop variant, whenever no signal and no callback is in
\* progress, active_stop_order_id and a pending stop are not both set.
C23_StopIdOrPending ==
    Quiescent => ~(active_stop_order_id # NoOrder /\ PendingStop)

(***************************************************************************)
(* Shutdown of the stop strategy.  StopStrategy.cleanup stops the price    *)
(* stream (is_running = False, the reader task and with it a suspended     *)
(* callback are cancelled) and closes the client's connection; spc         *)
(* "stopped" is the stream after stop().  The server runs it once its      *)
(* requests have been answered.                                            *)
(***************************************************************************)
S_Cleanup ==
    /\ LoopYields
    /\ \A q \in Slots : hs[q].pc = "idle"
    /\ StreamIs(watches, watched_prices, << >>, 0, "stopped")
    /\ cbl' = NoLocals
    /\ UNCHANGED <<venueVars, last_price, stratVars, hs, hist>>

NextStopShutdown ==
    \/ NextStop
    \/ S_Cleanup

SpecStopShutdown == InitBase /\ [][NextStopShutdown]_vars

\* C24: after the strategy's shutdown no watch is registered and no stop
\* order of the strategy is left open on the venue.
C24_NothingLeftAfterShutdown ==
    spc = "stopped" => (watched_prices = << >> /\ stops = {})

\* the shutdown sequence has been carried out
ShutDownFirst == spc = "stopped" /\ watched_prices = << >> /\ stops = {}

\* C25: a restart re-executes the process image only after the full shutdown
\* sequence: the watches and the strategy's stop orders are cancelled and the
\* price stream is stopped.
C25_ShutdownBeforeRestart == [][ProcessRestarts => ShutDownFirst]_vars

(***************************************************************************)
(* Restart manager.  request_restart is called from any thread; the slots  *)
(* are the calling threads, cut at every statement under _restart_lock,    *)
(* where the interpreter may switch threads.                               *)
(***************************************************************************)
\* a request that does not wait for the lock
RM_RequestUnlocked(slot) ==
    /\ hist.requests < MaxRequests
    /\ hs[slot].pc = "idle"
    /\ hs' = [hs EXCEPT ![slot].pc = "rm_check"]
    /\ hist' = [hist EXCEPT !.requests = @ + 1]
    /\ UNCHANGED <<venueVars, streamVars, stratVars>>

\* a thread calls request_restart; `with _restart_lock` lets it in when the
\* lock is free
RM_Request(slot) ==
    /\ hist.requests < MaxRequests
    /\ hs[slot].pc = "idle"
    /\ hist.restart_lock = 0
    /\ hs' = [hs EXCEPT ![slot].pc = "rm_check"]
    /\ hist' = [hist EXCEPT !.requests = @ + 1, !.restart_lock = slot]
    /\ UNCHANGED <<venueVars, streamVars, stratVars>>

\* if _restart_in_progress: return (the lock is released on the way out)
RM_Check(slot) ==
    /\ hs[slot].pc = "rm_check"
    /\ IF hist.restart_in_progress
       THEN /\ hs' = [hs EXCEPT ![slot].pc = "idle"]
            /\ hist' = [hist EXCEPT !.restart_lock = IF @ = slot THEN 0 ELSE @]
       ELSE /\ hs' = [hs EXCEPT ![slot].pc = "rm_set"]
            /\ hist' = hist
    /\ UNCHANGED <<venueVars, streamVars, stratVars>>

\* _restart_in_progress = True, and the with block ends
RM_Set(slot) ==
    /\ hs[slot].pc = "rm_set"
    /\ hs' = [hs EXCEPT ![slot].pc = "rm_start"]
    /\ hist' = [hist EXCEPT !.restart_in_progress = TRUE,
                            !.restart_lock = IF @ = slot THEN 0 ELSE @]
    /\ UNCHANGED <<venueVars, streamVars, stratVars>>

\* restart_thread.start()
RM_Start(slot) ==
    /\ hs[slot].pc = "rm_start"
    /\ hs' = [hs EXCEPT ![slot].pc = "idle"]
    /\ hist' = [hist EXCEPT !.restart_threads = @ + 1]
    /\ UNCHANGED <<venueVars, streamVars, stratVars>>

\* _perform_restart in a RestartThread: os.execv replaces the process image,
\* the module is loaded again
RM_Exec ==
    /\ hist.restart_threads > 0
    /\ hist.restarts < MaxRestarts
    /\ hs' = [h \in Slots |-> IdleHandler]
    /\ hist' = [hist EXCEPT !.restarts = @ + 1, !.restart_in_progress = FALSE,
                            !.restart_lock = 0, !.restart_threads = 0]
    /\ UNCHANGED <<venueVars, streamVars, stratVars>>

NextRestart ==
    \/ \E price \in Prices : K_Tick(price)
    \/ \E slot \in Slots : RM_Request(slot)
    \/ \E slot \in Slots : RM_Check(slot)
    \/ \E slot \in Slots : RM_Set(slot)
    \/ \E slot \in Slots : RM_Start(slot)
    \/ RM_Exec

SpecRestart == InitBase /\ [][NextRestart]_vars

\* C26: whatever number of threads call request_restart, and however their
\* calls interleave, at most one restart sequence is started in a process.
C26_OneRestartSequence == hist.restart_threads <= 1

\* a later request finds the flag set while the first request's restart
\* thread has been started
C26_Witness ==
    /\ hist.restart_threads = 1
    /\ \E s \in Slots : hs[s].pc = "rm_check" /\ hist.restart_in_progress

(***************************************************************************)
(* Webhook layer (server/app.py) in front of HedgingStrategy.  A request   *)
(* is in a slot from its arrival: "wh_ip" before webhook_handler has run,  *)
(* "wh_403" while its HTTPException is answered, "wh_body" while it awaits *)
(* request.body(), "wh_message" once the body has arrived; process_webhook *)
(* then goes on as in the hedging strategy.  Requests arrive one at a      *)
(* time, when no earlier one is being handled.                             *)
(***************************************************************************)
Addresses == {"10.0.0.1", "10.0.0.2"}
allowed_ips == {"10.0.0.1"}

Requests ==
    [forwarded : {<< >>} \cup {<<a>> : a \in Addresses}
                         \cup {q \in Addresses \X Addresses : q[1] # q[2]},
     real_ip : Addresses \cup {NoAddress},
     host : Addresses]

\* a body is a sequence of words; " " is white space
Bodies == UNION {[1..n -> {"buy", "sell", "hold", " "}] : n \in 0..MaxBody}

\* an address picker that trusts the last proxy in the chain
LastForwarded(request) ==
    IF request.forwarded # << >> THEN request.forwarded[Len(request.forwarded)]
    ELSE IF request.real_ip # NoAddress THEN request.real_ip
    ELSE request.host

\* get_client_ip
get_client_ip(request) ==
    IF request.forwarded # << >> THEN Head(request.forwarded)
    ELSE IF request.real_ip # NoAddress THEN request.real_ip
    ELSE request.host

\* raw_body.decode('utf-8').strip()
RECURSIVE strip(_)
strip(text) ==
    IF text = << >> THEN text
    ELSE IF Head(text) = " " THEN strip(Tail(text))
    ELSE IF text[Len(text)] = " " THEN strip(SubSeq(text, 1, Len(text) - 1))
    ELSE text

\* the server accepts a POST /webhook
WH_Connect(request) ==
    /\ spc = "idle"
    /\ \A q \in Slots : hs[q].pc = "idle"
    /\ hs' = [hs EXCEPT ![FreeSlot] = [IdleHandler EXCEPT !.pc = "wh_ip",
                                                         !.request = request]]
    /\ UNCHANGED <<venueVars, streamVars, stratVars, hist>>

\* webhook_handler to its await of request.body(): the allowlist
WH_Request(slot) ==
    /\ LoopYields
    /\ hs[slot].pc = "wh_ip"
    /\ hs' = [hs EXCEPT ![slot] =
                [IdleHandler EXCEPT
                   !.pc = IF get_client_ip(hs[slot].request) \notin allowed_ips
                          THEN "wh_403" ELSE "wh_body"]]
    /\ UNCHANGED <<venueVars, streamVars, stratVars, hist>>

\* the HTTPException has been answered with status 403
WH_Forbidden(slot) ==
    /\ hs[slot].pc = "wh_403"
    /\ hs' = [hs EXCEPT ![slot] = IdleHandler]
    /\ UNCHANGED <<venueVars, streamVars, stratVars, hist>>

\* the request's body has been received
WH_Body(slot, body) ==
    /\ hs[slot].pc = "wh_body"
    /\ hs' = [hs EXCEPT ![slot] = [IdleHandler EXCEPT !.pc = "wh_message",
                                                     !.body = body]]
    /\ UNCHANGED <<venueVars, streamVars, stratVars, hist>>

\* webhook_handler goes on: blank message, or process_webhook to the first
\* venue call of process_signal
WH_Message(slot, listing) ==
    /\ LoopYields
    /\ hs[slot].pc = "wh_message"
    /\ LET message == strip(hs[slot].body)
           action == parse_message([buy |-> "buy" \in Range(message),
                                    sell |-> "sell" \in Range(message)])
           f == should_process_signal(Strategy, action)
           listed == get_all_positions(Venue, listing)
       IN  IF message = << >> \/ action = "none" \/ ~f.ok
           THEN /\ hs' = [hs EXCEPT ![slot] = IdleHandler]
                /\ UNCHANGED <<stratVars, hist>>
           ELSE /\ hist.accepted < MaxSignals
                /\ StrategyIs(f.T)
                /\ hs' = [hs EXCEPT ![slot] =
                            [IdleHandler EXCEPT
                               !.pc = "positions",
                               !.action_side = IF action = "buy" THEN "LONG" ELSE "SHORT",
                               !.all_positions =
                                  [k \in 1..Len(listed) |->
                                      [side |-> listed[k], size |-> pos[listed[k]].size,
                                       entry_price |-> pos[listed[k]].entry]],
                               !.epoch = hist.accepted + 1,
                               !.main_side = main_position_side]]
                /\ hist' = [hist EXCEPT !.accepted = @ + 1, !.limit = FALSE]
    /\ UNCHANGED <<venueVars, streamVars>>

NextWebhook ==
    \/ \E price \in Prices : H_Tick(price)
    \/ H_Frame
    \/ HF_Activation
    \/ CB_HedgeOpened
    \/ CB_HedgeEntry
    \/ CB_HedgeSl
    \/ HF_Sl
    \/ HF_Trigger
    \/ CB_TriggerUpdated
    \/ HF_Tp
    \/ \E request \in Requests : WH_Connect(request)
    \/ \E slot \in Slots : WH_Request(slot)
    \/ \E slot \in Slots : WH_Forbidden(slot)
    \/ \E slot \in Slots, body \in Bodies : WH_Body(slot, body)
    \/ \E slot \in Slots, listing \in Listings : WH_Message(slot, listing)
    \/ \E slot \in Slots : H_Positions(slot)
    \/ \E slot \in Slots : H_StopsCancelled(slot)
    \/ \E slot \in Slots : H_Closed(slot)
    \/ \E slot \in Slots : H_Opened(slot)
    \/ \E slot \in Slots : H_Entry(slot)

SpecWebhook == InitBase /\ [][NextWebhook]_vars

(***************************************************************************)
(* Properties of the webhook layer (SpecWebhook).                          *)
(***************************************************************************)
\* the caller's address as the allowlist is meant to see it
RemoteIp(request) ==
    IF request.forwarded # << >> THEN request.forwarded[1]
    ELSE IF request.real_ip # NoAddress THEN request.real_ip
    ELSE request.host

\* the request in slot s is one the server rejects as a signal error: its
\* caller is not on the allowlist, or its body is blank or names no action
SignalError(s) ==
    \/ hs[s].pc = "wh_ip" /\ RemoteIp(hs[s].request) \notin allowed_ips
    \/ hs[s].pc = "wh_403"
    \/ /\ hs[s].pc = "wh_message"
       /\ \A i \in 1..Len(hs[s].body) : hs[s].body[i] \notin {"buy", "sell"}

\* C27: a step of the webhook handler on a request rejected as a signal error
\* starts no processing and leaves last_action, last_quantity, the strategy's
\* position state, the watches and the venue as they were.
C27_RejectionChangesNothing ==
    [][\A s \in Slots :
          (SignalError(s) /\ hs'[s] # hs[s]) =>
             /\ hs'[s].pc \in {"idle", "wh_403"}
             /\ UNCHANGED <<stratVars, venueVars, watches, watched_prices>>]_vars

\* a body without an action has arrived while a position is open and a watch
\* is registered
C27_Witness ==
    /\ \E s \in Slots : SignalError(s) /\ hs[s].pc = "wh_message"
    /\ last_action # "none"
    /\ watched_prices # << >>

ReturnsSuccess(s) ==
    /\ hs[s].pc # "idle"
    /\ hs'[s].pc = "idle"
    /\ hist'.restarts = hist.restarts
    /\ hist'.done = hist.done + 1

\* C29: a signal during whose processing a venue call has failed is answered
\* with a failure: process_signal does not return true for it.
C29_FailureReturnsFalse ==
    [][\A s \in Slots : (hs[s].failed \/ (hs[s].pc \in {"k_opened", "k_reversed"}
                                           /\ ~hs[s].success))
                            => ~ReturnsSuccess(s)]_vars

(***************************************************************************)
(* Startup reconciliation of the stop strategy (SpecStop).                 *)
(***************************************************************************)
\* the sides on which the venue holds a position
Held == {sd \in Sides : pos[sd].size > 0}

SignalAccepted == hist'.accepted = hist.accepted + 1

\* the action of the signal this step hands to process_signal in slot s
HandedOver(s) ==
    IF hs'[s].action_side = "LONG" THEN "buy" ELSE "sell"

\* C31: the step that accepts a signal leaves last_action equal to that
\* signal's action, and no other step of the running process (a handler's or
\* a callback's continuation, a frame, a filtered or unrecognised signal)
\* changes last_action; only the startup of a new process sets it afresh
C31_LastActionFollowsAccepted ==
    [][/\ SignalAccepted =>
             \E s \in Slots : /\ hs[s].pc = "idle"
                              /\ hs'[s].pc = "positions"
                              /\ last_action' = HandedOver(s)
       /\ (~SignalAccepted /\ ~ProcessRestarts) => last_action' = last_action]_vars

\* two signals were accepted, the activation callback has opened a hedge
\* since, every handler and callback has returned, and last_action is the
\* direction of the main position
C31_Witness ==
    /\ hist.accepted = MaxSignals
    /\ hedge_position_side # NoSide
    /\ hist.restarts = 0
    /\ InFlight = {}
    /\ cbl.pc = "none"
    /\ last_action = (IF main_position_side = "LONG" THEN "buy" ELSE "sell")

(***************************************************************************)
(* SpecWatchReconnect: the watch primitive with the connection loop's      *)
(* reconnects.  The connection drops while the reader waits for a message; *)
(* _connection_loop logs, continues with the next connection and counts it *)
(* in connection_count.  The watches are not touched.                      *)
(***************************************************************************)
W_Reconnect ==
    /\ spc = "idle"
    /\ hist.connection_count < MaxConnections
    /\ hist' = [hist EXCEPT !.connection_count = @ + 1]
    /\ UNCHANGED <<venueVars, streamVars, stratVars, hs>>

NextWatchReconnect ==
    \/ NextWatch
    \/ W_Reconnect

SpecWatchReconnect == InitBase /\ [][NextWatchReconnect]_vars

\* the watch registered at place i of the dict has not fired
Waiting(i) == ~watches[watched_prices[i]].triggered

\* after the step a watch that has not fired is registered under the key of
\* the watch now at place i, with the same callback
StaysRegistered(i) ==
    \E j \in 1..Len(watched_prices') :
       /\ WatchKey(watches'[watched_prices'[j]]) = WatchKey(watches[watched_prices[i]])
       /\ watches'[watched_prices'[j]].on_reach = watches[watched_prices[i]].on_reach
       /\ ~watches'[watched_prices'[j]].triggered

\* this step fires the watch at place i: its callback starts
FiresIt(i) == spc = "iter" /\ spc' = "cb" /\ Head(snapshot) = watched_prices[i]

\* this step is cancel_watch for the key of the watch at place i, or
\* cancel_all_watches
CancelsIt(i) ==
    \/ W_CancelAll
    \/ \E t \in ClientTargets, d \in {"long", "short"}, b \in ClientBarriers :
          /\ <<t, d, b[1], b[2]>> = WatchKey(watches[watched_prices[i]])
          /\ W_Cancel(t, d, b)

\* C32: a registered watch that has not fired stays registered, with its
\* callback, over every step that neither fires it nor cancels it: frames
\* that do not satisfy it, reconnects, registrations, and the firing and
\* returning of other watches' callbacks
C32_WatchLivesUntilFiredOrCancelled ==
    [][\A i \in 1..Len(watched_prices) :
          Waiting(i) => (StaysRegistered(i) \/ FiresIt(i) \/ CancelsIt(i))]_vars

(***************************************************************************)
(* C33: a frame that satisfies several watches (SpecWatch).                *)
(***************************************************************************)
\* the evaluation of the frame ends with this step
FrameEnds == spc # "idle" /\ spc' = "idle"

\* watch id is in the rest of the frame's list, is still registered, has
\* not fired and is satisfied by the frame's price
StillDue(id) ==
    /\ id \in Range(snapshot)
    /\ id \in Range(watched_prices)
    /\ ~watches[id].triggered
    /\ ShouldTrigger(watches[id], last_price)

\* C33: the watches a frame satisfies are invoked one after another in the
\* order of the frame's list, and the evaluation of the frame does not end
\* while a watch of the list that is still registered and satisfied has not
\* been invoked
C33_EverySatisfiedWatchInvoked ==
    [][/\ CallbackStarts => (HeadFires /\ cur' # 0)
       /\ FrameEnds => ~\E id \in DOMAIN watches : StillDue(id)]_vars

(***************************************************************************)
(* SpecLevels: the prices of the orders the strategies send, as functions  *)
(* of the entry price and the configured percentages.  A price is the      *)
(* fraction n/d; hist.sent holds the orders handed to                      *)
(* futures_create_order.                                                   *)
(***************************************************************************)
\* _calculate_stop_levels of the stop strategy: stop_limit_price =
\* entry_price * (1 +- stop_percent / (100 * leverage)), as computed
stop_limit_level(entry_price, position_side, percent) ==
    [n |-> IF position_side = "LONG"
           THEN entry_price * (100 * leverage + percent)
           ELSE entry_price * (100 * leverage - percent),
     d |-> 100 * leverage]

\* a price the hedging client took through round_price
Rounded(price) == [n |-> price, d |-> 1]

\* futures_create_order(...): the order is handed to the venue
Send(order) == [hist EXCEPT !.sent = @ \cup {order}]

\* _on_activation_price_reached: stop_price = stop_limit_price +- 1, then
\* place_stop_limit_order(price = limit_price, stopPrice = stop_price)
L_StopLimit(entry_price, position_side, percent) ==
    /\ Cardinality(hist.sent) < MaxSent
    /\ LET l == stop_limit_level(entry_price, position_side, percent)
       IN  hist' = Send([by |-> "place_stop_limit_order", type |-> "STOP", price |-> l,
                         stopPrice |-> [l EXCEPT !.n = IF position_side = "LONG"
                                                       THEN @ + l.d ELSE @ - l.d]])
    /\ UNCHANGED <<venueVars, streamVars, stratVars, hs>>

\* _set_hedge_stop_loss: place_stop_loss_order at calculate_stop_loss_price
L_StopLoss(entry_price, position_side, pnl) ==
    /\ Cardinality(hist.sent) < MaxSent
    /\ hist' = Send([by |-> "place_stop_loss_order", type |-> "STOP_MARKET",
                     price |-> Rounded(None),
                     stopPrice |-> Rounded(calculate_stop_loss_price(
                                               entry_price, position_side, pnl))])
    /\ UNCHANGED <<venueVars, streamVars, stratVars, hs>>

\* _on_trigger_price_reached: update_stop_loss_order at calculate_new_stop_price
L_Tp(entry_price, position_side, pnl) ==
    /\ Cardinality(hist.sent) < MaxSent
    /\ hist' = Send([by |-> "update_stop_loss_order", type |-> "STOP_MARKET",
                     price |-> Rounded(None),
                     stopPrice |-> Rounded(calculate_new_stop_price(
                                               entry_price, position_side, pnl))])
    /\ UNCHANGED <<venueVars, streamVars, stratVars, hs>>

NextLevels ==
    \/ \E e \in Prices, sd \in Sides, p \in {stop_percent, 50} : L_StopLimit(e, sd, p)
    \/ \E e \in Prices, sd \in Sides, p \in {sl_pnl, 0 - 150} : L_StopLoss(e, sd, p)
    \/ \E e \in Prices, sd \in Sides, p \in {tp_pnl, 50} : L_Tp(e, sd, p)

SpecLevels == InitBase /\ [][NextLevels]_vars

\* the price n/d is an integer multiple of tick_size
OnTickGrid(price) == price.n % (price.d * tick_size) = 0

\* C34: every price of every order sent to the venue is an integer multiple
\* of tick_size: the stop price of each order, and the limit price of a
\* stop-limit order
C34_PricesOnTickGrid ==
    \A o \in hist.sent :
       /\ OnTickGrid(o.stopPrice)
       /\ o.type = "STOP" => OnTickGrid(o.price)

(***************************************************************************)
(* SpecCancel: cancelling a stop order by its id                           *)
(* (HedgingBinanceClient.cancel_stop_loss_order; cancel_stop_order of      *)
(* StopBinanceClient has the same text).  Orders are placed on open        *)
(* positions, the mark price moves and fills them, and any order id the    *)
(* client was ever given may be cancelled, any number of times.            *)
(***************************************************************************)
\* futures_cancel_order(orderId): the venue takes the open order out; for
\* an id it holds no open order of (filled, cancelled, expired) it answers
\* with error -2011, unknown order
UnknownOrder == 0 - 2011

futures_cancel_order(V, order) ==
    IF order \in V.stops
    THEN [venue |-> [V EXCEPT !.stops = @ \ {order}], code |-> 0]
    ELSE [venue |-> V, code |-> UnknownOrder]

\* a cancel that reports an unknown order as a failure
CancelUnknownFails(V, order, outcome) ==
    [venue |-> futures_cancel_order(V, order).venue,
     result |-> outcome = "ok" /\ futures_cancel_order(V, order).code = 0]

\* cancel_stop_loss_order: True when the venue cancelled the order and when
\* it answered -2011; False on any other exception (outcome "error": the
\* request did not get an answer about the order)
cancel_stop_loss_order(V, order, outcome) ==
    IF outcome = "error" THEN [venue |-> V, result |-> FALSE]
    ELSE LET r == futures_cancel_order(V, order)
         IN  [venue |-> r.venue, result |-> r.code \in {0, UnknownOrder}]

\* the stop prices the client asks for
StopPrices == {2, 5}

OC_Tick(price) ==
    /\ price # vprice
    /\ vprice' = price
    /\ VenueIs(PriceMoves(Venue, price))
    /\ UNCHANGED <<streamVars, stratVars, hs, hist>>

OC_Open(side) ==
    /\ vprice # None
    /\ pos[side].size = 0
    /\ VenueIs(open_position(Venue, side, calculate_quantity(vprice), vprice).venue)
    /\ UNCHANGED <<vprice, streamVars, stratVars, hs, hist>>

OC_Place(side, stop_price) ==
    /\ pos[side].size > 0
    /\ Cardinality(hist.known) < MaxOrders
    /\ LET r == place_stop_loss_order(Venue, side, stop_price, vprice,
                                      Cardinality(hist.known) + 1)
       IN  /\ r.result # NoOrder
           /\ VenueIs(r.venue)
           /\ hist' = [hist EXCEPT !.known = @ \cup {r.result}]
    /\ UNCHANGED <<vprice, streamVars, stratVars, hs>>

OC_Cancel(order, outcome) ==
    /\ LET r == cancel_stop_loss_order(Venue, order, outcome)
       IN  /\ VenueIs(r.venue)
           /\ hist' = [hist EXCEPT
                         !.tried = IF outcome = "ok" THEN @ \cup {order} ELSE @,
                         !.last = [order |-> order, result |-> r.result,
                                   answered |-> outcome = "ok",
                                   again |-> order \in hist.tried,
                                   open |-> order \in stops]]
    /\ UNCHANGED <<vprice, streamVars, stratVars, hs>>

NextCancel ==
    \/ \E price \in Prices : OC_Tick(price)
    \/ \E side \in Sides : OC_Open(side)
    \/ \E side \in Sides, stop_price \in StopPrices : OC_Place(side, stop_price)
    \/ \E order \in hist.known, outcome \in Outcomes : OC_Cancel(order, outcome)

SpecCancel == InitBase /\ [][NextCancel]_vars

\* C35: a cancel the venue answered returns success, whether the order was
\* open, had been filled, or had been cancelled before (by an earlier call
\* for the same id), and the order is not open afterwards
C35_CancelIdempotent ==
    hist.last.answered => (hist.last.result /\ hist.last.order \notin stops)

\* the second answered cancel of the same id has returned success
C35_Witness ==
    /\ hist.last.answered
    /\ hist.last.again
    /\ ~hist.last.open
    /\ hist.last.result

(***************************************************************************)
(* C36: the hedge is protected when the activation callback ends.          *)
(***************************************************************************)
\* the activation callback returns with this step, its hedge market order
\* having succeeded at an entry whose stop-loss price is a price
HedgeCallbackEnds ==
    /\ PlacingHedge
    /\ cbl'.pc = "none"
    /\ ~ProcessRestarts
    /\ cbl.pc = "h_opened" => cbl.success
    /\ hedge_position_side \in Sides
    /\ calculate_stop_loss_price(pos[hedge_position_side].entry,
                                 hedge_position_side, sl_pnl) > 0

\* after the step a watch of the given kind is registered
RegisteredAfter(kind) ==
    \E i \in 1..Len(watched_prices') :
       watches'[watched_prices'[i]].on_reach.kind = kind

\* after the step the hedge position is closed, or its stop order stands at
\* the stop-loss price of its entry and the SL and TRIGGER watches are
\* registered
HedgeProtectedAfter ==
    \/ hedge_position_side' \notin Sides
    \/ pos'[hedge_position_side'].size = 0
    \/ /\ \E o \in stops' :
             /\ o.position_side = hedge_position_side'
             /\ o.stop_price = calculate_stop_loss_price(pos'[hedge_position_side'].entry,
                                                         hedge_position_side', sl_pnl)
       /\ RegisteredAfter("sl")
       /\ RegisteredAfter("trigger")

\* C36: when the activation callback whose hedge market order succeeded
\* returns, the hedge has its stop order at sl_price and both watches, or it
\* is closed
C36_HedgeNeverUnprotected == [][HedgeCallbackEnds => HedgeProtectedAfter]_vars

(***************************************************************************)
(* C37: the activation watch of a main position without a hedge.           *)
(***************************************************************************)
\* the strategy's main position is open on the venue and the opposite side
\* is flat
MainOnly ==
    /\ main_position_side \in Sides
    /\ pos[main_position_side].size > 0
    /\ pos[Opp(main_position_side)].size = 0

ActivationWatches ==
    {i \in 1..Len(watched_prices) :
        watches[watched_prices[i]].on_reach.kind = "activation"}

\* C37: with a main position open, no hedge open, the failure limit not
\* reached, no signal or callback in progress and the latest frame
\* evaluated, exactly one activation watch is registered
C37_OneActivationWatch ==
    (Quiescent /\ vprice = last_price /\ MainOnly /\ ~HedgingDisabled(Strategy))
       => Cardinality(ActivationWatches) = 1

(***************************************************************************)
(* C38: last_action and the direction of the position (SpecClassic).       *)
(***************************************************************************)
ActionOf(side) == IF side = "LONG" THEN "buy" ELSE "sell"

\* what the duplicate filter was last given to keep: the action of the
\* latest recognised signal of this process, before any signal the direction
\* of the position the startup found
LastKept ==
    IF hist.prev # "none" THEN hist.prev
    ELSE IF hist.startup = NoSide THEN "none" ELSE ActionOf(hist.startup)

\* C38 as stated: whenever no signal is being processed and the venue holds
\* a position, last_action is the direction of that position
C38_LastActionIsPositionDirection ==
    InFlight = {} => \A sd \in Held : last_action = ActionOf(sd)

\* C38 amended: whenever no signal is being processed, last_action is the
\* action of the latest signal the filter let through or dropped as its
\* duplicate (the restored direction before the first signal), whatever
\* became of that signal's order
C38_LastActionIsLastKept ==
    InFlight = {} => last_action = LastKept

\* the order of an accepted signal failed, the position still has the other
\* direction, and the same signal sent again was dropped as a duplicate
C38_Witness ==
    /\ InFlight = {}
    /\ hist.restarts = 0
    /\ hist.signals = 3
    /\ hist.accepted = 2
    /\ hist.done = 1
    /\ hist.response = "ignored"
    /\ \E sd \in Held : last_action # ActionOf(sd)


(***************************************************************************)
(* The result of process_webhook for an accepted signal.                   *)
(***************************************************************************)
\* process_signal returns True in this step: the position is already in the
\* direction of the signal, the hedge has become the main, or the new main
\* has been opened and recorded
HedgingReturnsSuccess(s) ==
    /\ ~ProcessRestarts
    /\ hs'[s].pc = "idle"
    /\ \/ /\ hs[s].pc = "positions"
          /\ hs[s].all_positions # << >>
          /\ hs[s].all_positions[1].side = hs[s].action_side
       \/ /\ hs[s].pc = "closed"
          /\ Len(hs[s].all_positions) = 2
          /\ last_price # None
       \/ hs[s].pc = "entry"

\* C39: when process_webhook returns success for an accepted signal, the
\* venue holds a position on the side of the signal's action, and the position
\* that was the main on the opposite side when the signal was accepted is
\* closed.
C39_SuccessMeansFlipped ==
    [][\A s \in Slots :
          HedgingReturnsSuccess(s) =>
             /\ pos'[hs[s].action_side].size > 0
             /\ hs[s].main_side = Opp(hs[s].action_side)
                   => pos'[hs[s].main_side].size = 0]_vars


(***************************************************************************)
(* C40: what the return of a watch callback removes (SpecWatch).           *)
(***************************************************************************)
\* the callback of the watch that fired returns with this step
CallbackReturns == spc = "cb" /\ spc' # "cb"

\* C40: when the callback of a fired watch returns, every registered watch
\* that has not fired is still registered afterwards, also one registered
\* during the callback under the target, direction and barrier of the watch
\* that fired.
C40_ReturnRemovesOnlyFired ==
    [][CallbackReturns =>
          \A i \in 1..Len(watched_prices) : Waiting(i) => StaysRegistered(i)]_vars

====
